---- MODULE Spec2Model ----
(***************************************************************************)
(* GoalVault: the encrypted goal record store (the Solidity contract kept  *)
(* in src/deploy/deploy_goalvault.ts, lines 36-248) together with the FHE  *)
(* oracle it calls (proof verification, encrypted zero, decryption grants).*)
(* Every external call of the contract is one atomic action; a reverted    *)
(* call leaves the contract storage, the grants and the event log as they  *)
(* were and only records its outcome in `last`.                            *)
(*                                                                         *)
(* The client-side description cipher (src/frontend/utils/crypto.ts and    *)
(* its second copy in src/frontend/next.config.ts) is the second part of   *)
(* the module; CipherSpec runs one encryptDescription, an optional change  *)
(* of the blob and one decryptDescription, with the store left as deployed.*)
(***************************************************************************)
EXTENDS Integers, Sequences, FiniteSets, TLC

(* ------------------------------ bounds --------------------------------- *)

\* most records the store is filled with
MaxGoals == 2

\* most events (successful mutating calls) of one behaviour
MaxEvents == 3

(* --------------------------- input domains ----------------------------- *)

Principals == {"alice", "bob"}

\* address(this): the store itself as a holder of decryption grants
This == "vault"

Titles == {"Learn X"}

\* client-side encrypted description blobs (opaque bytes to the store)
Descriptions == {"0xd1"}

\* block.timestamp of the block a call is mined in
BlockTimes == {1, 2}

\* per principal and width, the numbers of the encrypted inputs it has
\* prepared for each argument (8 bit: priority, progress; 64 bit: deadline,
\* completion time)
PriorityNs == {1}

ProgressNs == {1, 2}

DeadlineNs == {1}

CompletedAtNs == {1, 2}

\* ids a caller may pass: every existing id and some that never exist
CallIds == 0 .. MaxGoals

(* ------------------------------ errors --------------------------------- *)

OK               == "ok"
NotFound         == "Goal does not exist"
Unauthorized     == "Not goal owner"
AlreadyCompleted == "Goal already completed"
InvalidProof     == "InvalidProof"
Panic            == "Panic(0x32)"

(* ------------------------------ oracle --------------------------------- *)

\* bytes32(0): the handle of an encrypted field that was never set
ZeroHash == [w |-> 0, src |-> "none", n |-> 0]

\* the external handle of input n that `user` encrypted for this store
ExternalHandle(w, user, n) == [w |-> w, src |-> user, n |-> n]

\* FHE.fromExternal: the proof must verify for the handle and the caller;
\* the imported handle carries the bits of the external one
proofVerifies(h, proofOk, sender) == proofOk /\ h.src = sender

fromExternal(h) == h

\* FHE.asEuint8(v) / FHE.asEuint64(v): the trivial encryption of a plaintext;
\* its handle is a function of the plaintext and the width alone
asEuint8(v)  == [w |-> 8,  src |-> "trivial", n |-> v]

asEuint64(v) == [w |-> 64, src |-> "trivial", n |-> v]

\* FHE.allowThis / FHE.allow: idempotent grants, never revoked
allowThis(grants, h) == grants \cup {<<h, This>>}

allow(grants, h, p) == grants \cup {<<h, p>>}

\* the principals granted decryption of h
allowedOn(grants, h) == {p \in Principals \cup {This} : <<h, p>> \in grants}

(* ------------------------------- state --------------------------------- *)

VARIABLES
    goals,      \* Goal[] _goals; record id is at index id + 1
    goalsOf,    \* mapping(address => uint256[]) _goalsOf
    acl,        \* the oracle's grants: pairs <<handle, principal>>
    events,     \* the event log
    now,        \* timestamp of the latest block
    last,       \* the latest call: its inputs and its outcome
    copy,         \* the copy of the cipher module in use
    inDescription, \* the description given to encryptDescription
    inAddress,    \* the userAddress given to encryptDescription
    blob,         \* the hex blob: as returned, then as handed to decryptDescription
    gcmLog,       \* the AES-GCM encryptions performed: <<key, iv, output>>
    altered,      \* what happened to the blob in between
    reader,       \* the userAddress given to decryptDescription
    runBy,        \* the address of the principal that runs decryptDescription
    result,       \* decryptDescription's outcome
    pc,           \* how far the client has got
    retry,        \* a run of CreateGoal's retryEncrypt
    createForm,   \* the CreateGoal component: its state and its handleSubmit
    detail        \* the GoalDetail component: its state and its handlers

vars == <<goals, goalsOf, acl, events, now, last,
          copy, inDescription, inAddress, blob, gcmLog, altered, reader, runBy, result,
          pc, retry, createForm, detail>>

uiVars == <<retry, createForm, detail>>

contractVars == <<goals, goalsOf, acl, events, now, last>>

cipherVars ==
    <<copy, inDescription, inAddress, blob, gcmLog, altered, reader, runBy, result, pc>>

store == <<goals, goalsOf, acl, events>>

\* no call yet; ok1 and ok2 say whether the oracle accepts the call's proofs
NoCall ==
    [op |-> "none", sender |-> "none", id |-> 0, ok1 |-> FALSE, ok2 |-> FALSE,
     err |-> OK]

\* no decryptDescription yet
NoResult == [err |-> "none", text |-> << >>]

\* the store at deployment
ContractInit ==
    /\ goals = << >>
    /\ goalsOf = [p \in Principals |-> << >>]
    /\ acl = {}
    /\ events = << >>
    /\ now = 1
    /\ last = NoCall

\* no client is running the cipher
CipherOff ==
    /\ copy = "none"
    /\ inDescription = << >>
    /\ inAddress = << >>
    /\ blob = << >>
    /\ gcmLog = {}
    /\ altered = "no"
    /\ reader = << >>
    /\ runBy = << >>
    /\ result = NoResult
    /\ pc = "off"

\* no component is mounted
UiOff ==
    /\ retry = [pc |-> "idle"]
    /\ createForm = [pc |-> "unmounted"]
    /\ detail = [pc |-> "unmounted"]

Init == ContractInit /\ CipherOff /\ UiOff

(* ----------------------------- modifiers ------------------------------- *)

\* variant: the existence require is missing, so _goals[id] panics
onlyGoalOwnerNoRangeCheck(id, sender) ==
    IF ~(id < Len(goals)) THEN Panic
    ELSE IF goals[id + 1].owner # sender THEN Unauthorized
    ELSE OK

\* variant: the ownership require is missing
onlyGoalOwnerAnyCaller(id, sender) ==
    IF ~(id < Len(goals)) THEN NotFound ELSE OK

\* modifier onlyGoalOwner(id): the first require that fails, or OK
onlyGoalOwner(id, sender) ==
    IF ~(id < Len(goals)) THEN NotFound
    ELSE IF goals[id + 1].owner # sender THEN Unauthorized
    ELSE OK

\* variant: the completion require is missing
goalNotCompletedSkipped(id) == OK

\* modifier goalNotCompleted(id); runs after onlyGoalOwner, so id exists
goalNotCompleted(id) ==
    IF goals[id + 1].isCompleted THEN AlreadyCompleted ELSE OK

(* ---------------------------- createGoal ------------------------------- *)

\* variant: only the deadline proof is verified
createGoalErrDeadlineOnly(sender, deadline, okD, priority, okP) ==
    IF ~proofVerifies(deadline, okD, sender) THEN InvalidProof ELSE OK

\* the two imports in source order: deadline first, then priority
createGoalErr(sender, deadline, okD, priority, okP) ==
    IF ~proofVerifies(deadline, okD, sender) THEN InvalidProof
    ELSE IF ~proofVerifies(priority, okP, sender) THEN InvalidProof
    ELSE OK

\* variant: the progress handle is left unset
newGoalUnsetProgress(sender, title, desc, deadline, priority, ts) ==
    [owner                |-> sender,
     title                |-> title,
     encryptedDescription |-> desc,
     encryptedDeadline    |-> fromExternal(deadline),
     encryptedPriority    |-> fromExternal(priority),
     encryptedProgress    |-> ZeroHash,
     encryptedCompletedAt |-> asEuint64(0),
     isCompleted          |-> FALSE,
     createdAt            |-> ts]

\* variant: the record is born completed
newGoalBornCompleted(sender, title, desc, deadline, priority, ts) ==
    [owner                |-> sender,
     title                |-> title,
     encryptedDescription |-> desc,
     encryptedDeadline    |-> fromExternal(deadline),
     encryptedPriority    |-> fromExternal(priority),
     encryptedProgress    |-> asEuint8(0),
     encryptedCompletedAt |-> asEuint64(0),
     isCompleted          |-> TRUE,
     createdAt            |-> ts]

\* variant: the completion time is left unset (bytes32(0))
newGoalUnsetCompletedAt(sender, title, desc, deadline, priority, ts) ==
    [owner                |-> sender,
     title                |-> title,
     encryptedDescription |-> desc,
     encryptedDeadline    |-> fromExternal(deadline),
     encryptedPriority    |-> fromExternal(priority),
     encryptedProgress    |-> asEuint8(0),
     encryptedCompletedAt |-> ZeroHash,
     isCompleted          |-> FALSE,
     createdAt            |-> ts]

newGoal(sender, title, desc, deadline, priority, ts) ==
    [owner                |-> sender,
     title                |-> title,
     encryptedDescription |-> desc,
     encryptedDeadline    |-> fromExternal(deadline),
     encryptedPriority    |-> fromExternal(priority),
     encryptedProgress    |-> asEuint8(0),
     encryptedCompletedAt |-> asEuint64(0),
     isCompleted          |-> FALSE,
     createdAt            |-> ts]

\* the eight grants of createGoal, on the fields of the stored record
createGoalGrants(grants, g, sender) ==
    LET a1 == allow(allowThis(grants, g.encryptedDeadline), g.encryptedDeadline, sender)
        a2 == allow(allowThis(a1, g.encryptedPriority), g.encryptedPriority, sender)
        a3 == allow(allowThis(a2, g.encryptedProgress), g.encryptedProgress, sender)
    IN  allow(allowThis(a3, g.encryptedCompletedAt), g.encryptedCompletedAt, sender)

\* variant: the id is read as the length after the push
newIdOffByOne(pushed) == Len(pushed)

\* uint256 id = _goals.length - 1, read after the push
newId(pushed) == Len(pushed) - 1

\* variant: the id is put in front of the owner's list
pushGoalIdFront(index, owner, id) == [index EXCEPT ![owner] = <<id>> \o @]

\* _goalsOf[msg.sender].push(id)
pushGoalId(index, owner, id) == [index EXCEPT ![owner] = Append(@, id)]

GoalCreated(id, owner, title, createdAt) ==
    [kind |-> "GoalCreated", id |-> id, owner |-> owner, title |-> title, at |-> createdAt]

createGoal(sender, title, desc, deadline, okD, priority, okP, ts) ==
    LET err == createGoalErr(sender, deadline, okD, priority, okP)
        g   == newGoal(sender, title, desc, deadline, priority, ts)
        id  == newId(Append(goals, g))
    IN  /\ err = OK => Len(goals) < MaxGoals /\ Len(events) < MaxEvents
        /\ now' = ts
        /\ last' = [op |-> "createGoal", sender |-> sender, id |-> 0,
                    ok1 |-> okD, ok2 |-> okP, err |-> err]
        /\ IF err = OK
           THEN /\ goals' = Append(goals, g)
                /\ goalsOf' = pushGoalId(goalsOf, sender, id)
                /\ acl' = createGoalGrants(acl, g, sender)
                /\ events' = Append(events, GoalCreated(id, sender, title, g.createdAt))
           ELSE UNCHANGED store

(* --------------------------- updateProgress ---------------------------- *)

\* variant: completion is checked before ownership
updateProgressErrCompletionFirst(sender, id, h, proofOk) ==
    IF ~(id < Len(goals)) THEN NotFound
    ELSE IF goalNotCompleted(id) # OK THEN goalNotCompleted(id)
    ELSE IF onlyGoalOwner(id, sender) # OK THEN onlyGoalOwner(id, sender)
    ELSE IF ~proofVerifies(h, proofOk, sender) THEN InvalidProof
    ELSE OK

\* the modifiers in declaration order, then the import of the handle
updateProgressErr(sender, id, h, proofOk) ==
    IF onlyGoalOwner(id, sender) # OK THEN onlyGoalOwner(id, sender)
    ELSE IF goalNotCompleted(id) # OK THEN goalNotCompleted(id)
    ELSE IF ~proofVerifies(h, proofOk, sender) THEN InvalidProof
    ELSE OK

\* variant: the new handle is written to the priority field
setProgressWrongField(gs, id, progress) == [gs EXCEPT ![id + 1].encryptedPriority = progress]

\* goal.encryptedProgress = progress
setProgress(gs, id, progress) == [gs EXCEPT ![id + 1].encryptedProgress = progress]

\* variant: the grants of the new handle replace the grants held so far
reauthorizeAfresh(grants, h, sender) == {<<h, This>>, <<h, sender>>}

\* "Re-authorize access": FHE.allowThis(handle); FHE.allow(handle, msg.sender)
reauthorize(grants, h, sender) == allow(allowThis(grants, h), h, sender)

GoalProgressUpdated(id, owner, updatedAt) ==
    [kind |-> "GoalProgressUpdated", id |-> id, owner |-> owner, title |-> "", at |-> updatedAt]

updateProgress(sender, id, h, proofOk, ts) ==
    LET err      == updateProgressErr(sender, id, h, proofOk)
        progress == fromExternal(h)
    IN  /\ err = OK => Len(events) < MaxEvents
        /\ now' = ts
        /\ last' = [NoCall EXCEPT !.op = "updateProgress", !.sender = sender, !.id = id,
                                  !.ok1 = proofOk, !.err = err]
        /\ IF err = OK
           THEN /\ goals' = setProgress(goals, id, progress)
                /\ acl' = reauthorize(acl, goals'[id + 1].encryptedProgress, sender)
                /\ events' = Append(events, GoalProgressUpdated(id, sender, ts))
                /\ UNCHANGED goalsOf
           ELSE UNCHANGED store

(* ---------------------------- completeGoal ----------------------------- *)

\* variant: completeGoal requires that the progress was set
completeGoalErrNeedsProgress(sender, id, h, proofOk) ==
    IF onlyGoalOwner(id, sender) # OK THEN onlyGoalOwner(id, sender)
    ELSE IF goalNotCompleted(id) # OK THEN goalNotCompleted(id)
    ELSE IF goals[id + 1].encryptedProgress = asEuint8(0) THEN "Progress not set"
    ELSE IF ~proofVerifies(h, proofOk, sender) THEN InvalidProof
    ELSE OK

\* variant: the goalNotCompleted modifier is missing from completeGoal
completeGoalErrNoCompletionCheck(sender, id, h, proofOk) ==
    IF onlyGoalOwner(id, sender) # OK THEN onlyGoalOwner(id, sender)
    ELSE IF ~proofVerifies(h, proofOk, sender) THEN InvalidProof
    ELSE OK

completeGoalErr(sender, id, h, proofOk) ==
    IF onlyGoalOwner(id, sender) # OK THEN onlyGoalOwner(id, sender)
    ELSE IF goalNotCompleted(id) # OK THEN goalNotCompleted(id)
    ELSE IF ~proofVerifies(h, proofOk, sender) THEN InvalidProof
    ELSE OK

\* variant: the flag is set but the handle is not stored
setCompletedFlagOnly(gs, id, completedAt) == [gs EXCEPT ![id + 1].isCompleted = TRUE]

\* variant: the completion time is written to the deadline field as well
setCompletedOverwritesDeadline(gs, id, completedAt) ==
    [gs EXCEPT ![id + 1].encryptedCompletedAt = completedAt,
               ![id + 1].encryptedDeadline = completedAt,
               ![id + 1].isCompleted = TRUE]

\* goal.encryptedCompletedAt = completedAt; goal.isCompleted = true
setCompleted(gs, id, completedAt) ==
    [gs EXCEPT ![id + 1].encryptedCompletedAt = completedAt,
               ![id + 1].isCompleted = TRUE]

\* variant: the event carries the record count instead of the id
GoalCompletedWrongId(id, owner, completedAt) ==
    [kind |-> "GoalCompleted", id |-> Len(goals), owner |-> owner, title |-> "",
     at |-> completedAt]

GoalCompleted(id, owner, completedAt) ==
    [kind |-> "GoalCompleted", id |-> id, owner |-> owner, title |-> "", at |-> completedAt]

completeGoal(sender, id, h, proofOk, ts) ==
    LET err         == completeGoalErr(sender, id, h, proofOk)
        completedAt == fromExternal(h)
    IN  /\ err = OK => Len(events) < MaxEvents
        /\ now' = ts
        /\ last' = [NoCall EXCEPT !.op = "completeGoal", !.sender = sender, !.id = id,
                                  !.ok1 = proofOk, !.err = err]
        /\ IF err = OK
           THEN /\ goals' = setCompleted(goals, id, completedAt)
                /\ acl' = reauthorize(acl, goals'[id + 1].encryptedCompletedAt, sender)
                /\ events' = Append(events, GoalCompleted(id, sender, ts))
                /\ UNCHANGED goalsOf
           ELSE UNCHANGED store

(* --------------------------- read accessors ---------------------------- *)

\* _goalsOf[owner]: a mapping yields the empty array for a key never written
goalsOfAt(owner) == IF owner \in DOMAIN goalsOf THEN goalsOf[owner] ELSE << >>

getGoalCountByOwner(owner) == Len(goalsOfAt(owner))

getGoalIdsByOwner(owner) == goalsOfAt(owner)

getTotalGoals == Len(goals)

\* variant: the bound is inclusive
goalExistsInclusive(id) == id <= Len(goals)

goalExists(id) == id < Len(goals)

\* Goal storage goal = _goals[id]: an out-of-range index panics
getGoalMeta(id) ==
    IF id < Len(goals)
    THEN [err |-> OK, owner |-> goals[id + 1].owner, title |-> goals[id + 1].title,
          createdAt |-> goals[id + 1].createdAt, isCompleted |-> goals[id + 1].isCompleted]
    ELSE [err |-> Panic, owner |-> "none", title |-> "", createdAt |-> 0, isCompleted |-> FALSE]

getEncryptedDescription(id) ==
    IF id < Len(goals) THEN [err |-> OK, val |-> goals[id + 1].encryptedDescription]
    ELSE [err |-> Panic, val |-> ""]

getEncryptedDeadline(id) ==
    IF id < Len(goals) THEN [err |-> OK, val |-> goals[id + 1].encryptedDeadline]
    ELSE [err |-> Panic, val |-> ZeroHash]

getEncryptedPriority(id) ==
    IF id < Len(goals) THEN [err |-> OK, val |-> goals[id + 1].encryptedPriority]
    ELSE [err |-> Panic, val |-> ZeroHash]

getEncryptedProgress(id) ==
    IF id < Len(goals) THEN [err |-> OK, val |-> goals[id + 1].encryptedProgress]
    ELSE [err |-> Panic, val |-> ZeroHash]

getEncryptedCompletedAt(id) ==
    IF id < Len(goals) THEN [err |-> OK, val |-> goals[id + 1].encryptedCompletedAt]
    ELSE [err |-> Panic, val |-> ZeroHash]

(* ------------------------------ behaviour ------------------------------ *)

\* the block of a call is never older than the latest block
Later == {t \in BlockTimes : t >= now}

CreateGoal ==
    \E sender \in Principals, title \in Titles, desc \in Descriptions,
       nD \in DeadlineNs, okD \in BOOLEAN, nP \in PriorityNs, okP \in BOOLEAN,
       ts \in Later :
        /\ createGoal(sender, title, desc, ExternalHandle(64, sender, nD), okD,
                      ExternalHandle(8, sender, nP), okP, ts)
        /\ UNCHANGED cipherVars
        /\ UNCHANGED uiVars

UpdateProgress ==
    \E sender \in Principals, id \in CallIds, n \in ProgressNs, proofOk \in BOOLEAN,
       ts \in Later :
        /\ updateProgress(sender, id, ExternalHandle(8, sender, n), proofOk, ts)
        /\ UNCHANGED cipherVars
        /\ UNCHANGED uiVars

CompleteGoal ==
    \E sender \in Principals, id \in CallIds, n \in CompletedAtNs, proofOk \in BOOLEAN,
       ts \in Later :
        /\ completeGoal(sender, id, ExternalHandle(64, sender, n), proofOk, ts)
        /\ UNCHANGED cipherVars
        /\ UNCHANGED uiVars

Next == CreateGoal \/ UpdateProgress \/ CompleteGoal

Spec == Init /\ [][Next]_vars

(* ------------------------------- claims -------------------------------- *)

\* the step is a call of updateProgress or completeGoal
MutatorCalled == last'.op \in {"updateProgress", "completeGoal"}

\* the record ids of the current state, as indexes of goals
Records == 1 .. Len(goals)

\* C1: updateProgress and completeGoal on an id at or beyond the record
\* count fail with "Goal does not exist", and the call changes neither the
\* records, nor the ownership index, nor the grants, nor the event log.
C1_NotFoundNoChange ==
    [][ (MutatorCalled /\ last'.id >= Len(goals))
            => (last'.err = NotFound /\ UNCHANGED store) ]_vars

\* C1 witness: on a non-empty store, a call with a proof the oracle accepts
\* was refused because its id is out of range.
C1_Witness ==
    /\ last.op \in {"updateProgress", "completeGoal"}
    /\ Len(goals) >= 1
    /\ last.id >= Len(goals)
    /\ last.ok1
    /\ last.err = NotFound

\* C2: updateProgress and completeGoal on an existing record by a caller
\* other than its owner fail with "Not goal owner"; a record's progress
\* handle, completion handle and completion flag change only in a call by
\* the record's owner.
C2_OnlyOwnerMutates ==
    [][ /\ (MutatorCalled /\ last'.id < Len(goals)
                /\ goals[last'.id + 1].owner # last'.sender)
            => last'.err = Unauthorized
        /\ \A i \in Records :
              (\/ goals'[i].encryptedProgress # goals[i].encryptedProgress
               \/ goals'[i].encryptedCompletedAt # goals[i].encryptedCompletedAt
               \/ goals'[i].isCompleted # goals[i].isCompleted)
                => last'.sender = goals[i].owner ]_vars

\* C2 witness: a non-owner's call on an existing, active record was refused.
C2_Witness ==
    /\ last.op \in {"updateProgress", "completeGoal"}
    /\ last.id < Len(goals)
    /\ goals[last.id + 1].owner # last.sender
    /\ ~goals[last.id + 1].isCompleted
    /\ last.ok1
    /\ last.err = Unauthorized

\* C3: once a record is completed, every updateProgress and completeGoal on
\* it by its owner fails with "Goal already completed", whatever the proof.
C3_CompletedRejects ==
    [][ (MutatorCalled /\ last'.id < Len(goals)
            /\ goals[last'.id + 1].owner = last'.sender
            /\ goals[last'.id + 1].isCompleted)
            => last'.err = AlreadyCompleted ]_vars

\* C3 witness: the owner's updateProgress with an accepted proof on its
\* completed record was refused.
C3_Witness ==
    /\ last.op = "updateProgress"
    /\ last.id < Len(goals)
    /\ goals[last.id + 1].owner = last.sender
    /\ goals[last.id + 1].isCompleted
    /\ last.ok1
    /\ last.err = AlreadyCompleted

\* C4: isCompleted is false on a new record and afterwards only ever goes
\* from false to true: a completed record stays completed in every step.
C4_CompletedMonotonic ==
    [][ /\ Len(goals') >= Len(goals)
        /\ \A i \in Records : goals[i].isCompleted => goals'[i].isCompleted
        /\ \A i \in (Len(goals) + 1) .. Len(goals') : ~goals'[i].isCompleted ]_vars

\* C4 witness: a record is completed and a later call on the store succeeded.
C4_Witness ==
    /\ \E i \in Records : goals[i].isCompleted
    /\ last.op # "completeGoal"
    /\ last.err = OK

\* the GoalCreated events of the log, in emission order
CreatedEvents == SelectSeq(events, LAMBDA e : e.kind = "GoalCreated")

\* the number of events of one kind about record id
EventCount(kind, id) ==
    Cardinality({k \in 1 .. Len(events) : events[k].kind = kind /\ events[k].id = id})

\* C5: the k-th successful createGoal is assigned id k - 1, whoever calls:
\* the ids of the creation events are 0, 1, 2, ... in order, there are as
\* many of them as records, and no other call uses up an id.
C5_DenseIds ==
    /\ Len(CreatedEvents) = Len(goals)
    /\ \A k \in 1 .. Len(CreatedEvents) : CreatedEvents[k].id = k - 1
    /\ (last.op = "createGoal" /\ last.err = OK)
          => (/\ events[Len(events)].id = Len(goals) - 1
              /\ goalsOf[last.sender][Len(goalsOf[last.sender])] = Len(goals) - 1)

\* C5 witness: two creations by different callers with another successful
\* call between them, followed by a failed call.
C5_Witness ==
    /\ Len(events) = 3
    /\ events[1].kind = "GoalCreated"
    /\ events[2].kind # "GoalCreated"
    /\ events[3].kind = "GoalCreated"
    /\ events[1].owner # events[3].owner
    /\ last.err # OK

\* C6: a successful createGoal(title, desc, deadline, priority, proofs) by c
\* that is assigned id i leaves getGoalMeta(i) = (c, title, createdAt, false),
\* getEncryptedDescription(i) = desc, non-zero deadline, priority and
\* progress handles, and i appended to getGoalIdsByOwner(c), which grew by
\* exactly one.
C6_CreateGoalPost ==
    [][ (last'.op = "createGoal" /\ last'.err = OK) =>
        \A sender \in Principals, title \in Titles, desc \in Descriptions,
           nD \in DeadlineNs, nP \in PriorityNs, ts \in BlockTimes, i \in CallIds :
          (/\ createGoal(sender, title, desc, ExternalHandle(64, sender, nD), TRUE,
                         ExternalHandle(8, sender, nP), TRUE, ts)
           /\ events'[Len(events')] = GoalCreated(i, sender, title, ts))
            => (/\ getGoalMeta(i)' = [err |-> OK, owner |-> sender, title |-> title,
                                      createdAt |-> ts, isCompleted |-> FALSE]
                /\ getEncryptedDescription(i)' = [err |-> OK, val |-> desc]
                /\ getEncryptedDeadline(i)'.err = OK
                /\ getEncryptedDeadline(i)'.val # ZeroHash
                /\ getEncryptedPriority(i)'.err = OK
                /\ getEncryptedPriority(i)'.val # ZeroHash
                /\ getEncryptedProgress(i)'.err = OK
                /\ getEncryptedProgress(i)'.val # ZeroHash
                /\ getGoalIdsByOwner(sender)' = Append(getGoalIdsByOwner(sender), i)
                /\ getGoalCountByOwner(sender)' = getGoalCountByOwner(sender) + 1) ]_vars

\* C6 witness: a principal's first goal was just created as the store's
\* second record, so its id is not its position in the owner's list.
C6_Witness ==
    /\ last.op = "createGoal"
    /\ last.err = OK
    /\ Len(goals) = 2
    /\ getGoalIdsByOwner(last.sender) = <<1>>
    /\ getGoalMeta(1).owner = last.sender

\* C7: on an active record every updateProgress by the owner with a valid
\* proof succeeds, however many came before; afterwards getEncryptedProgress
\* returns the handle that call imported and the owner is granted decryption
\* of it; the progress handle changes in no other step (last write wins).
C7_UpdateProgressPost ==
    [][ /\ (last'.op = "updateProgress" /\ last'.ok1) =>
            \A sender \in Principals, id \in CallIds, n \in ProgressNs, ts \in BlockTimes :
              (/\ updateProgress(sender, id, ExternalHandle(8, sender, n), TRUE, ts)
               /\ id < Len(goals)
               /\ goals[id + 1].owner = sender
               /\ ~goals[id + 1].isCompleted)
                => (/\ last'.err = OK
                    /\ getEncryptedProgress(id)' =
                          [err |-> OK, val |-> fromExternal(ExternalHandle(8, sender, n))]
                    /\ sender \in allowedOn(acl', getEncryptedProgress(id)'.val))
        /\ \A i \in Records :
              goals'[i].encryptedProgress # goals[i].encryptedProgress
                => (last'.op = "updateProgress" /\ last'.id = i - 1 /\ last'.err = OK)
      ]_vars

\* C7 witness: the second successful updateProgress on the same record.
C7_Witness ==
    /\ last.op = "updateProgress"
    /\ last.err = OK
    /\ EventCount("GoalProgressUpdated", last.id) >= 2

\* C8: after a successful completeGoal(id, h, proof) by the owner of an
\* active record, getGoalMeta(id) reports isCompleted = true,
\* getEncryptedCompletedAt(id) returns the handle imported from h and the
\* owner is granted decryption of it.
C8_CompleteGoalPost ==
    [][ (last'.op = "completeGoal" /\ last'.err = OK) =>
        \A sender \in Principals, id \in CallIds, n \in CompletedAtNs, ts \in BlockTimes :
          (/\ completeGoal(sender, id, ExternalHandle(64, sender, n), TRUE, ts)
           /\ last'.err = OK)
            => (/\ getGoalMeta(id)'.err = OK
                /\ getGoalMeta(id)'.isCompleted
                /\ getEncryptedCompletedAt(id)' =
                      [err |-> OK, val |-> fromExternal(ExternalHandle(64, sender, n))]
                /\ sender \in allowedOn(acl', getEncryptedCompletedAt(id)'.val)) ]_vars

\* C8 witness: a record whose progress had been updated was just completed.
C8_Witness ==
    /\ last.op = "completeGoal"
    /\ last.err = OK
    /\ EventCount("GoalProgressUpdated", last.id) >= 1
    /\ getGoalMeta(last.id).isCompleted

\* the handles the latest call set, on the record it set them on
HandlesSetByLast ==
    LET id == IF last.op = "createGoal" THEN Len(goals) - 1 ELSE last.id
        g  == goals[id + 1]
    IN  IF last.op = "createGoal"
        THEN {g.encryptedDeadline, g.encryptedPriority, g.encryptedProgress,
              g.encryptedCompletedAt}
        ELSE IF last.op = "updateProgress" THEN {g.encryptedProgress}
        ELSE {g.encryptedCompletedAt}

\* the owner of the record the latest call wrote
OwnerOfLast ==
    goals[(IF last.op = "createGoal" THEN Len(goals) - 1 ELSE last.id) + 1].owner

\* C9: right after createGoal, updateProgress or completeGoal sets a handle
\* on a record, the principals granted decryption of that handle are exactly
\* the store and the record's owner.
C9_ExactlyStoreAndOwner ==
    (last.op # "none" /\ last.err = OK)
        => \A h \in HandlesSetByLast : allowedOn(acl, h) = {This, OwnerOfLast}

\* C10: updateProgress and completeGoal report the first failing check in
\* the order existence, ownership, not completed, proof: a non-owner on a
\* completed record gets "Not goal owner", the owner on a completed record
\* with a bad proof gets "Goal already completed", an out-of-range id gets
\* "Goal does not exist" whatever the caller and the proof.
C10_CheckOrder ==
    [][ MutatorCalled =>
          last'.err =
            IF ~(last'.id < Len(goals)) THEN NotFound
            ELSE IF goals[last'.id + 1].owner # last'.sender THEN Unauthorized
            ELSE IF goals[last'.id + 1].isCompleted THEN AlreadyCompleted
            ELSE IF ~last'.ok1 THEN InvalidProof
            ELSE OK ]_vars

\* C10 witness: a call that fails three checks at once (not the owner, the
\* record completed, the proof refused) reported the ownership failure.
C10_Witness ==
    /\ last.op \in {"updateProgress", "completeGoal"}
    /\ last.id < Len(goals)
    /\ goals[last.id + 1].owner # last.sender
    /\ goals[last.id + 1].isCompleted
    /\ ~last.ok1
    /\ last.err = Unauthorized

\* C11: a createGoal, updateProgress or completeGoal that fails, whatever
\* the error, leaves the records, the ownership index, the grants and the
\* event log as they were; createGoal fails as soon as one of its two proofs
\* is refused.
C11_FailureChangesNothing ==
    [][ /\ last'.err # OK => UNCHANGED store
        /\ (last'.op = "createGoal" /\ ~(last'.ok1 /\ last'.ok2))
              => (last'.err = InvalidProof /\ UNCHANGED store) ]_vars

\* C11 witness: on a store with records, grants and events, a createGoal
\* whose deadline proof was accepted and whose priority proof was refused
\* failed.
C11_Witness ==
    /\ last.op = "createGoal"
    /\ last.ok1
    /\ ~last.ok2
    /\ last.err = InvalidProof
    /\ Len(goals) >= 1
    /\ Len(events) >= 2

\* C12: on a completed record the progress handle, the completion handle and
\* the flag are the same after every step, whoever calls whatever.
C12_CompletedIsTerminal ==
    [][ \A i \in Records :
          goals[i].isCompleted
            => (/\ goals'[i].isCompleted
                /\ goals'[i].encryptedProgress = goals[i].encryptedProgress
                /\ goals'[i].encryptedCompletedAt = goals[i].encryptedCompletedAt) ]_vars

\* C12 witness: the owner called completeGoal with an accepted proof on its
\* completed record, whose progress had been set before.
C12_Witness ==
    /\ last.op = "completeGoal"
    /\ last.id < Len(goals)
    /\ goals[last.id + 1].isCompleted
    /\ goals[last.id + 1].owner = last.sender
    /\ last.ok1
    /\ last.err = AlreadyCompleted
    /\ goals[last.id + 1].encryptedProgress # asEuint8(0)

\* the fields of a record that are written at creation only
Immutable(g) ==
    <<g.owner, g.title, g.encryptedDescription, g.encryptedDeadline,
      g.encryptedPriority, g.createdAt>>

\* C13: owner, title, description, deadline, priority and creation time of a
\* record never change; a successful updateProgress(id) changes only the
\* progress handle of record id, a successful completeGoal(id) only the
\* completion handle and the flag of record id, and a createGoal changes no
\* existing record.
C13_Frame ==
    [][ /\ \A i \in Records : Immutable(goals'[i]) = Immutable(goals[i])
        /\ (last'.op = "updateProgress" /\ last'.err = OK)
              => goals' = [goals EXCEPT ![last'.id + 1].encryptedProgress =
                                          goals'[last'.id + 1].encryptedProgress]
        /\ (last'.op = "completeGoal" /\ last'.err = OK)
              => goals' = [goals EXCEPT ![last'.id + 1].encryptedCompletedAt =
                                          goals'[last'.id + 1].encryptedCompletedAt,
                                        ![last'.id + 1].isCompleted =
                                          goals'[last'.id + 1].isCompleted]
        /\ last'.op = "createGoal" => SubSeq(goals', 1, Len(goals)) = goals ]_vars

\* C13 witness: with two records in the store, the first was just completed.
C13_Witness ==
    /\ Len(goals) = 2
    /\ last.op = "completeGoal"
    /\ last.id = 0
    /\ last.err = OK

\* C14: each of the six accessors that read a record fails with "Goal does
\* not exist", the error updateProgress and completeGoal report, when the id
\* is at or beyond the record count.
C14_ReadersReportNotFound ==
    \A id \in CallIds :
        id >= getTotalGoals
          => (/\ getGoalMeta(id).err = NotFound
              /\ getEncryptedDescription(id).err = NotFound
              /\ getEncryptedDeadline(id).err = NotFound
              /\ getEncryptedPriority(id).err = NotFound
              /\ getEncryptedProgress(id).err = NotFound
              /\ getEncryptedCompletedAt(id).err = NotFound)

\* an address that never calls the store
Strangers == {"carol"}

\* C15: goalExists(id) is id < getTotalGoals(); the total grows by one in a
\* successful createGoal and is unchanged by every other step; goalExists,
\* getTotalGoals, getGoalCountByOwner and getGoalIdsByOwner return a value
\* for every argument: false, 0 and the empty list for an id beyond the
\* records and an address without records.
C15_ExistenceAndCounts ==
    [][ /\ \A id \in CallIds :
              /\ goalExists(id) <=> id < getTotalGoals
              /\ goalExists(id)' <=> id < getTotalGoals'
        /\ getTotalGoals' =
              getTotalGoals + (IF last'.op = "createGoal" /\ last'.err = OK THEN 1 ELSE 0)
        /\ \A p \in Principals \cup Strangers :
              /\ getGoalCountByOwner(p) \in Nat
              /\ (\A i \in Records : goals[i].owner # p)
                    => (getGoalCountByOwner(p) = 0 /\ getGoalIdsByOwner(p) = << >>)
      ]_vars

\* C15 witness: one principal has created the only record, the latest call
\* failed, and goalExists is true for id 0 and false for id 1.
C15_Witness ==
    /\ getTotalGoals = 1
    /\ goalExists(0)
    /\ ~goalExists(1)
    /\ last.err # OK
    /\ \E p \in Principals : getGoalCountByOwner(p) = 0

\* the event kind of each mutating operation
KindOf(op) ==
    IF op = "createGoal" THEN "GoalCreated"
    ELSE IF op = "updateProgress" THEN "GoalProgressUpdated"
    ELSE "GoalCompleted"

\* per record: one GoalCreated, at most one GoalCompleted, and no
\* GoalProgressUpdated later in the log than its GoalCompleted
PerRecordEvents ==
    \A id \in 0 .. (Len(goals) - 1) :
        /\ EventCount("GoalCreated", id) = 1
        /\ EventCount("GoalCompleted", id) <= 1
        /\ \A k, l \in 1 .. Len(events) :
              (k < l /\ events[k].kind = "GoalCompleted" /\ events[k].id = id)
                => ~(events[l].kind = "GoalProgressUpdated" /\ events[l].id = id)

\* C16: a successful createGoal, updateProgress or completeGoal appends one
\* event of its own kind, carrying the id and the owner of the record it
\* wrote and the block time (GoalCreated also the title and createdAt); a
\* failed call appends none; so each record has one GoalCreated, at most one
\* GoalCompleted and no GoalProgressUpdated after its GoalCompleted (true of
\* the empty store, and checked again after every step that changes the
\* records or the log).
C16_Events ==
    [][ /\ last'.err # OK => events' = events
        /\ last'.err = OK =>
              LET e  == events'[Len(events')]
                  id == IF last'.op = "createGoal" THEN Len(goals) ELSE last'.id
              IN  /\ Len(events') = Len(events) + 1
                  /\ SubSeq(events', 1, Len(events)) = events
                  /\ e.kind = KindOf(last'.op)
                  /\ e.id = id
                  /\ e.owner = goals'[id + 1].owner
                  /\ e.owner = last'.sender
                  /\ e.at = now'
                  /\ last'.op = "createGoal"
                        => (e.title = goals'[id + 1].title
                            /\ e.at = goals'[id + 1].createdAt)
        /\ <<goals, events>>' # <<goals, events>> => PerRecordEvents' ]_vars

\* C16 witness: a record was created, updated and completed, one event each,
\* and a later updateProgress on it by its owner failed without an event.
C16_Witness ==
    /\ Len(events) = 3
    /\ events[1].kind = "GoalCreated"
    /\ events[2].kind = "GoalProgressUpdated"
    /\ events[3].kind = "GoalCompleted"
    /\ events[2].id = events[1].id
    /\ events[3].id = events[1].id
    /\ last.op = "updateProgress"
    /\ last.id = events[1].id
    /\ last.sender = events[1].owner
    /\ last.err = AlreadyCompleted

\* the ids of the records p created, in creation order
CreatedBy(p) ==
    LET ids[k \in 0 .. Len(goals)] ==
          IF k = 0 THEN << >>
          ELSE IF goals[k].owner = p THEN Append(ids[k - 1], k - 1) ELSE ids[k - 1]
    IN  ids[Len(goals)]

\* s is an initial segment of t
IsPrefix(s, t) == Len(s) <= Len(t) /\ SubSeq(t, 1, Len(s)) = s

\* C17: for every principal the list of getGoalIdsByOwner before a step is
\* a prefix of the list after it; the list holds exactly the ids of the
\* records the principal created, in creation order; getGoalCountByOwner is
\* its length (all true of the empty store, and checked again after every
\* step that changes the records or the index); updateProgress and
\* completeGoal leave the index unchanged.
C17_IndexAppendOnly ==
    [][ /\ <<goals, goalsOf>>' # <<goals, goalsOf>> =>
              \A p \in Principals \cup Strangers :
                /\ IsPrefix(getGoalIdsByOwner(p), getGoalIdsByOwner(p)')
                /\ getGoalIdsByOwner(p)' = CreatedBy(p)'
                /\ getGoalCountByOwner(p)' = Len(getGoalIdsByOwner(p)')
        /\ MutatorCalled => goalsOf' = goalsOf ]_vars

\* C17 witness: one principal created both records and then completed the
\* first; its list is <<0, 1>>.
C17_Witness ==
    /\ \E p \in Principals : getGoalIdsByOwner(p) = <<0, 1>>
    /\ last.op = "completeGoal"
    /\ last.err = OK

\* C23: while a record is active its completion handle is the encrypted
\* zero of its creation, and once it is completed the handle is another one:
\* the handle changes in the step that sets isCompleted and (C12) never
\* again; the progress handle is the encrypted zero of the creation as long
\* as no updateProgress on the record succeeded.
C23_ZeroUntilSet ==
    \A i \in Records :
        /\ ~goals[i].isCompleted <=> goals[i].encryptedCompletedAt = asEuint64(0)
        /\ goals[i].isCompleted <=> EventCount("GoalCompleted", i - 1) = 1
        /\ EventCount("GoalProgressUpdated", i - 1) = 0
              => goals[i].encryptedProgress = asEuint8(0)
        /\ EventCount("GoalProgressUpdated", i - 1) > 0
              => goals[i].encryptedProgress # asEuint8(0)

\* C23 witness: of two records one is completed and the other is active with
\* both handles as created.
C23_Witness ==
    /\ Len(goals) = 2
    /\ goals[1].isCompleted
    /\ goals[1].encryptedCompletedAt # asEuint64(0)
    /\ ~goals[2].isCompleted
    /\ goals[2].encryptedCompletedAt = asEuint64(0)
    /\ goals[2].encryptedProgress = asEuint8(0)

\* C24: no step removes a grant; after updateProgress or completeGoal has
\* replaced a handle of a record, the store and the owner are authorized on
\* the handle it held before as well as on the new one.
C24_GrantsOnlyGrow ==
    [][ /\ acl' = acl \/ acl \subseteq acl'
        /\ (last'.op = "updateProgress" /\ last'.err = OK)
              => (/\ {This, last'.sender}
                        \subseteq allowedOn(acl', goals[last'.id + 1].encryptedProgress)
                  /\ {This, last'.sender}
                        \subseteq allowedOn(acl', goals'[last'.id + 1].encryptedProgress))
        /\ (last'.op = "completeGoal" /\ last'.err = OK)
              => (/\ {This, last'.sender}
                        \subseteq allowedOn(acl', goals[last'.id + 1].encryptedCompletedAt)
                  /\ {This, last'.sender}
                        \subseteq allowedOn(acl', goals'[last'.id + 1].encryptedCompletedAt))
      ]_vars

\* C24 witness: the progress handle of a record was replaced by a second
\* imported one, and its owner is still authorized on the first.
C24_Witness ==
    /\ last.op = "updateProgress"
    /\ last.err = OK
    /\ \E n \in ProgressNs :
          /\ ExternalHandle(8, last.sender, n) # goals[last.id + 1].encryptedProgress
          /\ <<ExternalHandle(8, last.sender, n), last.sender>> \in acl

\* the sum of f over the set S
RECURSIVE SumOver(_, _)
SumOver(f, S) ==
    IF S = {} THEN 0
    ELSE LET x == CHOOSE y \in S : TRUE IN f[x] + SumOver(f, S \ {x})

\* C26: the lists of the ownership index partition the record ids: every id
\* below the record count is in the list of its record's owner, once, and in
\* no other list; the lists hold nothing else; every list is strictly
\* increasing; the counts of all principals add up to getTotalGoals().
C26_IndexPartitionsIds ==
    /\ \A id \in 0 .. (getTotalGoals - 1) : \A p \in Principals \cup Strangers :
          Cardinality({k \in 1 .. getGoalCountByOwner(p) : getGoalIdsByOwner(p)[k] = id})
            = IF goals[id + 1].owner = p THEN 1 ELSE 0
    /\ \A p \in Principals \cup Strangers : \A k \in 1 .. getGoalCountByOwner(p) :
          /\ getGoalIdsByOwner(p)[k] \in 0 .. (getTotalGoals - 1)
          /\ k > 1 => getGoalIdsByOwner(p)[k - 1] < getGoalIdsByOwner(p)[k]
    /\ SumOver([p \in Principals \cup Strangers |-> getGoalCountByOwner(p)],
               Principals \cup Strangers) = getTotalGoals

\* C26 witness: both principals own a record, the second one id 1.
C26_Witness ==
    /\ getTotalGoals = 2
    /\ \A p \in Principals : getGoalCountByOwner(p) = 1
    /\ \E p \in Principals : getGoalIdsByOwner(p) = <<1>>

\* C27: completeGoal by the owner of an active record with an accepted proof
\* succeeds whatever the progress handle of the record is, the encrypted
\* zero of its creation included.
C27_CompletionNeedsNoProgress ==
    [][ (last'.op = "completeGoal" /\ last'.ok1 /\ last'.id < Len(goals)) =>
          ((goals[last'.id + 1].owner = last'.sender /\ ~goals[last'.id + 1].isCompleted)
              => (/\ last'.err = OK
                  /\ goals'[last'.id + 1].isCompleted
                  /\ goals'[last'.id + 1].encryptedProgress
                        = goals[last'.id + 1].encryptedProgress)) ]_vars

\* C27 witness: a record is completed whose progress is the encrypted zero
\* of its creation: no updateProgress on it ever succeeded.
C27_Witness ==
    /\ last.op = "completeGoal"
    /\ last.err = OK
    /\ goals[last.id + 1].isCompleted
    /\ goals[last.id + 1].encryptedProgress = asEuint8(0)
    /\ EventCount("GoalProgressUpdated", last.id) = 0

(* ===================== client-side description cipher ================== *)
(* src/frontend/utils/crypto.ts, lines 1-87 (the module the components      *)
(* import), and the second copy of the module kept in                       *)
(* src/frontend/next.config.ts, lines 28-71.  A string is the sequence of   *)
(* its UTF-16 code units, a byte array the sequence of its bytes.           *)

(* ------------------------- strings and bytes --------------------------- *)

\* concatenation of a sequence of sequences
RECURSIVE Flatten(_)
Flatten(ss) == IF ss = << >> THEN << >> ELSE Head(ss) \o Flatten(Tail(ss))

RECURSIVE SumSeq(_)
SumSeq(s) == IF s = << >> THEN 0 ELSE Head(s) + SumSeq(Tail(s))

\* s.slice(from): the code units (or bytes) from 0-based index `from` on
sliceFrom(s, from) == SubSeq(s, from + 1, Len(s))

\* s.slice(from, to): 0-based, `to` exclusive, both clipped to the length
slice(s, from, to) ==
    SubSeq(s, from + 1, IF to < Len(s) THEN to ELSE Len(s))

\* String.prototype.toLowerCase, on the Latin capital letters A-Z
toLowerCase(s) ==
    [k \in 1 .. Len(s) |-> IF s[k] \in 65 .. 90 THEN s[k] + 32 ELSE s[k]]

isHighSurrogate(u) == u \in 55296 .. 56319

isLowSurrogate(u) == u \in 56320 .. 57343

\* the scalar values of a string: a surrogate pair is one supplementary
\* code point, a surrogate without its partner is replaced by U+FFFD
RECURSIVE scalarValues(_)
scalarValues(s) ==
    IF s = << >> THEN << >>
    ELSE IF isHighSurrogate(s[1]) /\ Len(s) >= 2 /\ isLowSurrogate(s[2])
         THEN <<65536 + (s[1] - 55296) * 1024 + (s[2] - 56320)>>
                  \o scalarValues(sliceFrom(s, 2))
    ELSE IF isHighSurrogate(s[1]) \/ isLowSurrogate(s[1])
         THEN <<65533>> \o scalarValues(Tail(s))
    ELSE <<s[1]>> \o scalarValues(Tail(s))

\* the UTF-8 bytes of one scalar value
utf8Bytes(c) ==
    IF c < 128 THEN <<c>>
    ELSE IF c < 2048 THEN <<192 + (c \div 64), 128 + (c % 64)>>
    ELSE IF c < 65536
         THEN <<224 + (c \div 4096), 128 + ((c \div 64) % 64), 128 + (c % 64)>>
    ELSE <<240 + (c \div 262144), 128 + ((c \div 4096) % 64),
           128 + ((c \div 64) % 64), 128 + (c % 64)>>

\* new TextEncoder().encode(s)
TextEncode(s) ==
    LET cs == scalarValues(s)
    IN  Flatten([k \in 1 .. Len(cs) |-> utf8Bytes(cs[k])])

\* the number of continuation bytes a UTF-8 lead byte announces; -1 for a
\* byte that cannot start a sequence
utf8Needed(b1) ==
    IF b1 < 128 THEN 0
    ELSE IF b1 \in 194 .. 223 THEN 1
    ELSE IF b1 \in 224 .. 239 THEN 2
    ELSE IF b1 \in 240 .. 244 THEN 3
    ELSE -1

\* whether c may be the k-th continuation byte after lead byte b1
utf8Continues(b1, k, c) ==
    LET lo == IF k = 1 /\ b1 = 224 THEN 160
              ELSE IF k = 1 /\ b1 = 240 THEN 144 ELSE 128
        hi == IF k = 1 /\ b1 = 237 THEN 159
              ELSE IF k = 1 /\ b1 = 244 THEN 143 ELSE 191
    IN  c \in lo .. hi

\* the code points of a byte stream, decoded as the non-fatal UTF-8 decoder
\* does: an ill-formed or cut-off sequence yields one U+FFFD and decoding
\* resumes at the byte that did not fit
RECURSIVE utf8CodePoints(_)
utf8CodePoints(b) ==
    IF b = << >> THEN << >>
    ELSE
      LET b1     == b[1]
          needed == utf8Needed(b1)
          fits(k) == k + 1 <= Len(b) /\ utf8Continues(b1, k, b[k + 1])
          good   == IF needed < 1 \/ ~fits(1) THEN 0
                    ELSE IF needed < 2 \/ ~fits(2) THEN 1
                    ELSE IF needed < 3 \/ ~fits(3) THEN 2
                    ELSE 3
          first  == IF needed = 1 THEN b1 - 192
                    ELSE IF needed = 2 THEN b1 - 224
                    ELSE b1 - 240
          cp[k \in 0 .. 3] ==
              IF k = 0 THEN first ELSE cp[k - 1] * 64 + (b[k + 1] - 128)
      IN  IF needed = 0 THEN <<b1>> \o utf8CodePoints(Tail(b))
          ELSE IF needed = -1 THEN <<65533>> \o utf8CodePoints(Tail(b))
          ELSE IF good = needed THEN <<cp[needed]>> \o utf8CodePoints(sliceFrom(b, needed + 1))
          ELSE <<65533>> \o utf8CodePoints(sliceFrom(b, good + 1))

\* the UTF-16 code units of one code point
utf16Units(c) ==
    IF c < 65536 THEN <<c>>
    ELSE <<55296 + ((c - 65536) \div 1024), 56320 + ((c - 65536) % 1024)>>

\* new TextDecoder().decode(bytes): UTF-8, errors replaced, and a byte order
\* mark at the start of the stream dropped (ignoreBOM is false by default)
TextDecode(b) ==
    LET body == IF Len(b) >= 3 /\ SubSeq(b, 1, 3) = <<239, 187, 191>>
                THEN sliceFrom(b, 3) ELSE b
        cs   == utf8CodePoints(body)
    IN  Flatten([k \in 1 .. Len(cs) |-> utf16Units(cs[k])])

(* -------------------------------- hex ---------------------------------- *)

\* the code unit of hex digit n: '0'-'9', 'a'-'f'
hexDigit(n) == IF n < 10 THEN 48 + n ELSE 87 + n

\* b.toString(16): one digit below 16, two digits from 16 on
toString16(b) ==
    IF b < 16 THEN <<hexDigit(b)>> ELSE <<hexDigit(b \div 16), hexDigit(b % 16)>>

\* s.padStart(2, '0')
padStart2(s) == IF Len(s) < 2 THEN <<48>> \o s ELSE s

\* `0x${Array.from(bytes).map(b => b.toString(16).padStart(2, '0')).join('')}`
toHex(bytes) ==
    <<48, 120>> \o Flatten([k \in 1 .. Len(bytes) |-> padStart2(toString16(bytes[k]))])

\* the value of a hex digit of either case; -1 for any other code unit
hexValue(u) ==
    IF u \in 48 .. 57 THEN u - 48
    ELSE IF u \in 97 .. 102 THEN u - 87
    ELSE IF u \in 65 .. 70 THEN u - 55
    ELSE -1

NaN == -1

\* parseInt(s, 16) of a string of at most two code units: the value of its
\* longest prefix of hex digits, NaN without one ("0x" is a bare radix
\* prefix); leading white space and signs do not occur in the model
parseInt16(s) ==
    IF s = << >> \/ hexValue(s[1]) = -1 THEN NaN
    ELSE IF Len(s) = 1 THEN hexValue(s[1])
    ELSE IF s[1] = 48 /\ s[2] \in {120, 88} THEN NaN
    ELSE IF hexValue(s[2]) = -1 THEN hexValue(s[1])
    ELSE 16 * hexValue(s[1]) + hexValue(s[2])

\* the store of a number into a Uint8Array element: NaN becomes 0
toUint8(n) == IF n = NaN THEN 0 ELSE n % 256

\* new Uint8Array(hex.slice(2).match(/.{1,2}/g)?.map(b => parseInt(b, 16)) || [])
hexToBytes(hex) ==
    LET body == sliceFrom(hex, 2)
    IN  [k \in 1 .. ((Len(body) + 1) \div 2) |->
            toUint8(parseInt16(slice(body, 2 * (k - 1), 2 * k)))]

(* --------------------------- key derivation ---------------------------- *)

KeyLen == 32

\* the 32-byte digest of a message of fewer than 32 bytes: collision-free,
\* as Keccak-256 is taken to be (one-wayness is not modelled)
Digest(m) ==
    [j \in 1 .. KeyLen |->
        IF j <= Len(m) THEN (7 * m[j] + 31 * j + Len(m)) % 256
        ELSE (31 * j + Len(m)) % 256]

\* ethers hexlify(bytes): "0x" and two lower-case hex digits per byte
hexlify(bytes) ==
    <<48, 120>> \o Flatten([j \in 1 .. Len(bytes) |->
                               <<hexDigit(bytes[j] \div 16), hexDigit(bytes[j] % 16)>>])

\* ethers keccak256(bytes): the digest as "0x" and 64 lower-case hex digits
keccak256(m) == hexlify(Digest(m))

\* ethers toUtf8Bytes(s), of a well-formed string
toUtf8Bytes(s) == TextEncode(s)

\* variant: the address is hashed as given, without toLowerCase
deriveKeyFromAddressCaseSensitive(addr) ==
    LET hash == keccak256(toUtf8Bytes(addr))
    IN  [i \in 1 .. KeyLen |->
            toUint8(parseInt16(slice(hash, 2 + (i - 1) * 2, 4 + (i - 1) * 2)))]

\* variant: every key byte is parsed from the first digest byte
deriveKeyFromAddressFirstByte(addr) ==
    LET hash == keccak256(toUtf8Bytes(toLowerCase(addr)))
    IN  [i \in 1 .. KeyLen |-> toUint8(parseInt16(slice(hash, 2, 4)))]

\* deriveKeyFromAddress: key[i] = parseInt(hash.slice(2 + i*2, 4 + i*2), 16)
\* for i = 0 .. 31 (the model counts key bytes from 1)
deriveKeyFromAddress(addr) ==
    LET hash == keccak256(toUtf8Bytes(toLowerCase(addr)))
    IN  [i \in 1 .. KeyLen |->
            toUint8(parseInt16(slice(hash, 2 + (i - 1) * 2, 4 + (i - 1) * 2)))]

\* validateKey: key.length === 32
validateKey(key) == Len(key) = KeyLen

(* ------------------------------ AES-GCM -------------------------------- *)

NonceLen == 12

TagLengthBits == 128

TagLen == TagLengthBits \div 8

DecryptionFailed == "DecryptionFailed"

\* byte k of the key stream of a key and an iv
keystream(key, iv, k) == (SumSeq(key) + SumSeq(iv) + 13 * k) % 256

\* the 16 tag bytes the encryption appends; whether a tag verifies is
\* decided by gcmOpen
gcmTag(key, iv, ct) ==
    [j \in 1 .. TagLen |->
        (SumSeq(key) + 3 * SumSeq(iv) + 5 * SumSeq(ct) + Len(ct) + 17 * j) % 256]

\* crypto.subtle.encrypt({name: 'AES-GCM', iv, tagLength: 128}, key, pt):
\* the ciphertext, as long as the plaintext, followed by the tag
gcmSeal(key, iv, pt) ==
    LET ct == [k \in 1 .. Len(pt) |-> (pt[k] + keystream(key, iv, k)) % 256]
    IN  ct \o gcmTag(key, iv, ct)

\* crypto.subtle.decrypt({name: 'AES-GCM', iv, tagLength: 128}, key, data):
\* the tag verifies exactly for data that an encryption under the same key
\* and iv produced (`made` holds those); anything else, data shorter than a
\* tag included, is rejected with an OperationError
gcmOpen(made, key, iv, data) ==
    IF <<key, iv, data>> \in made
    THEN [err |-> OK,
          bytes |-> [k \in 1 .. (Len(data) - TagLen) |->
                        (data[k] + 256 - keystream(key, iv, k)) % 256]]
    ELSE [err |-> DecryptionFailed, bytes |-> << >>]

(* --------------------- utils/crypto.ts, lines 18-87 -------------------- *)

\* chacha20Encrypt: result.set(nonce, 0); result.set(encrypted, nonce.length)
chacha20Encrypt(key, nonce, plaintext) == nonce \o gcmSeal(key, nonce, plaintext)

\* encryptDescription, with the nonce randomBytes(12) returned
encryptDescription(description, userAddress, nonce) ==
    LET key       == deriveKeyFromAddress(userAddress)
        plaintext == TextEncode(description)
        encrypted == chacha20Encrypt(key, nonce, plaintext)
    IN  toHex(encrypted)

\* decryptDescription: a rejected crypto.subtle.decrypt rejects the call
decryptDescription(made, encryptedHex, userAddress) ==
    LET key        == deriveKeyFromAddress(userAddress)
        encrypted  == hexToBytes(encryptedHex)
        nonce      == slice(encrypted, 0, NonceLen)
        ciphertext == sliceFrom(encrypted, NonceLen)
        decrypted  == gcmOpen(made, key, nonce, ciphertext)
    IN  IF decrypted.err # OK THEN [err |-> decrypted.err, text |-> << >>]
        ELSE [err |-> OK, text |-> TextDecode(decrypted.bytes)]

(* --------------------- next.config.ts, lines 45-71 --------------------- *)

\* chacha20Encrypt ("simplified"): the nonce followed by the plaintext; the
\* key is not used
chacha20EncryptSimplified(key, nonce, plaintext) == nonce \o plaintext

encryptDescriptionSimplified(description, userAddress, nonce) ==
    LET key       == deriveKeyFromAddress(userAddress)
        plaintext == TextEncode(description)
        encrypted == chacha20EncryptSimplified(key, nonce, plaintext)
    IN  toHex(encrypted)

\* decryptDescription ("simplified"): the bytes after the nonce, decoded;
\* the key is derived and not used, and nothing is verified
decryptDescriptionSimplified(encryptedHex, userAddress) ==
    LET key        == deriveKeyFromAddress(userAddress)
        encrypted  == hexToBytes(encryptedHex)
        ciphertext == sliceFrom(encrypted, NonceLen)
    IN  [err |-> OK, text |-> TextDecode(ciphertext)]

(* --------------------------- cipher behaviour -------------------------- *)

\* longest description, in UTF-16 code units
MaxPlainLen == 2

Copies == {"utils/crypto", "next.config"}

\* 'A', the byte order mark U+FEFF, and the two halves of U+1F600
PlainUnits == {65, 65279, 55357, 56832}

Plaintexts == UNION {[1 .. n -> PlainUnits] : n \in 0 .. MaxPlainLen}

\* "0xAb", "0xab" and "0xCd": two spellings of one address, and another one
Identifiers == {<<48, 120, 65, 98>>, <<48, 120, 97, 98>>, <<48, 120, 67, 100>>}

\* two of the values randomBytes(12) may return
Nonces == {[k \in 1 .. NonceLen |-> k - 1], [k \in 1 .. NonceLen |-> (17 * k + 200) % 256]}

\* how much a byte is changed by
ByteDeltas == {1, 128}

\* the client is about to encrypt a description for an address
CipherInit ==
    /\ ContractInit
    /\ copy \in Copies
    /\ inDescription \in Plaintexts
    /\ inAddress \in Identifiers
    /\ blob = << >>
    /\ gcmLog = {}
    /\ altered = "no"
    /\ reader = << >>
    /\ runBy = << >>
    /\ result = NoResult
    /\ pc = "input"
    /\ UiOff

\* the encryptions on record after crypto.subtle.encrypt(key, iv, pt)
madeWith(key, iv, pt) == gcmLog \cup {<<key, iv, gcmSeal(key, iv, pt)>>}

\* encryptDescription(description, userAddress) of the copy in use
Encrypt ==
    /\ pc = "input"
    /\ \E nonce \in Nonces :
          IF copy = "utils/crypto"
          THEN /\ blob' = encryptDescription(inDescription, inAddress, nonce)
               /\ gcmLog' = madeWith(deriveKeyFromAddress(inAddress), nonce,
                                   TextEncode(inDescription))
          ELSE /\ blob' = encryptDescriptionSimplified(inDescription, inAddress, nonce)
               /\ gcmLog' = gcmLog
    /\ pc' = "stored"
    /\ UNCHANGED <<copy, inDescription, inAddress, altered, reader, runBy, result>>
    /\ UNCHANGED contractVars
    /\ UNCHANGED uiVars

\* one byte of the stored blob is changed
AlterByte ==
    /\ pc = "stored"
    /\ altered = "no"
    /\ LET bytes == hexToBytes(blob)
       IN  \E k \in 1 .. Len(bytes), d \in ByteDeltas :
              blob' = hexlify([bytes EXCEPT ![k] = (@ + d) % 256])
    /\ altered' = "byte"
    /\ UNCHANGED <<copy, inDescription, inAddress, gcmLog, reader, runBy, result, pc>>
    /\ UNCHANGED contractVars
    /\ UNCHANGED uiVars

\* the stored blob is cut to a shorter one
Truncate ==
    /\ pc = "stored"
    /\ altered = "no"
    /\ LET bytes == hexToBytes(blob)
       IN  \E n \in 0 .. (Len(bytes) - 1) : blob' = hexlify(SubSeq(bytes, 1, n))
    /\ altered' = "truncated"
    /\ UNCHANGED <<copy, inDescription, inAddress, gcmLog, reader, runBy, result, pc>>
    /\ UNCHANGED contractVars
    /\ UNCHANGED uiVars

\* decryptDescription(encryptedHex, b) of the copy in use, run by any
\* principal: the blob is readable by everyone (getEncryptedDescription is a
\* view without access control) and addresses are public
Decrypt ==
    /\ pc = "stored"
    /\ \E who \in Identifiers, b \in Identifiers :
          /\ runBy' = who
          /\ reader' = b
          /\ result' = IF copy = "utils/crypto"
                       THEN decryptDescription(gcmLog, blob, b)
                       ELSE decryptDescriptionSimplified(blob, b)
    /\ pc' = "done"
    /\ UNCHANGED <<copy, inDescription, inAddress, blob, gcmLog, altered>>
    /\ UNCHANGED contractVars
    /\ UNCHANGED uiVars

CipherNext == Encrypt \/ AlterByte \/ Truncate \/ Decrypt

CipherSpec == CipherInit /\ [][CipherNext]_vars

(* ---------------------------- cipher claims --------------------------- *)

\* decryptDescription was called on the blob as encryptDescription returned it
DecryptedAsStored == pc = "done" /\ altered = "no"

\* decryptDescription was called on a blob that differs from the returned one
\* in one byte, or is a proper prefix of it
DecryptedAltered == pc = "done" /\ altered # "no"

\* C18: with utils/crypto.ts, decryptDescription(encryptDescription(p, a), a)
\* returns p, for every string p, the empty one included, every identifier a
\* and every nonce.
C18_RoundTrip ==
    (DecryptedAsStored /\ copy = "utils/crypto" /\ reader = inAddress)
        => result = [err |-> OK, text |-> inDescription]

\* no surrogate code unit of s is without its partner
WellFormed(s) ==
    \A k \in 1 .. Len(s) :
        /\ isHighSurrogate(s[k]) => (k < Len(s) /\ isLowSurrogate(s[k + 1]))
        /\ isLowSurrogate(s[k]) => (k > 1 /\ isHighSurrogate(s[k - 1]))

\* the round trip of either copy returns every well-formed string that does
\* not begin with U+FEFF
RoundTripOfText ==
    (DecryptedAsStored /\ reader = inAddress /\ WellFormed(inDescription)
        /\ (inDescription = << >> \/ inDescription[1] # 65279))
        => result = [err |-> OK, text |-> inDescription]

\* C19: decryptDescription fails with DecryptionFailed on every blob that
\* differs in one byte from one encryptDescription(p, a) returned, or is a
\* proper prefix of it; it returns no plaintext for a blob whose tag does
\* not verify.
C19_TamperDetected ==
    (DecryptedAltered /\ reader = inAddress) => result.err = DecryptionFailed

\* C20: with utils/crypto.ts, decryptDescription(encryptDescription(p, a), b)
\* fails with DecryptionFailed whenever the identifier strings a and b
\* differ, be it in the case of a letter only.
C20_CrossIdentityFails ==
    (DecryptedAsStored /\ copy = "utils/crypto" /\ reader # inAddress)
        => result.err = DecryptionFailed

\* C20, amended: with utils/crypto.ts, decryptDescription(encryptDescription(
\* p, a), b) fails with DecryptionFailed whenever a and b differ after
\* lower-casing; for a and b that differ in letter case only it returns what
\* decryption under a returns.
C20_CrossIdentityFailsLowerCased ==
    (DecryptedAsStored /\ copy = "utils/crypto")
        => (/\ toLowerCase(reader) # toLowerCase(inAddress)
                 => result.err = DecryptionFailed
            /\ toLowerCase(reader) = toLowerCase(inAddress)
                 => result = decryptDescription(gcmLog, blob, inAddress))

\* C20 witness: a non-empty description encrypted for "0xAb" was refused to
\* "0xCd".
C20_Witness ==
    /\ DecryptedAsStored
    /\ copy = "utils/crypto"
    /\ inDescription # << >>
    /\ inAddress = <<48, 120, 65, 98>>
    /\ reader = <<48, 120, 67, 100>>
    /\ result.err = DecryptionFailed

\* C21: a principal other than the one a description was encrypted for, who
\* knows that principal's address and the stored blob and nothing else, does
\* not obtain the description.
C21_OnlyOwnerReads ==
    (DecryptedAsStored /\ copy = "utils/crypto" /\ inDescription # << >>
        /\ toLowerCase(runBy) # toLowerCase(inAddress))
        => ~(result.err = OK /\ result.text = inDescription)

\* C22: deriveKeyFromAddress yields a key of 32 bytes that is a function of
\* the lower-cased identifier: identifiers equal after lower-casing have the
\* same key, an identifier has the key of its lower-cased form, and the key
\* is the same whichever copy, description, nonce or earlier call.
C22_KeyOfLowerCasedAddress ==
    pc = "done" =>
        LET key    == deriveKeyFromAddress(reader)
            stored == hexToBytes(blob)
        IN  /\ validateKey(key)
            /\ \A k \in 1 .. KeyLen : key[k] \in 0 .. 255
            /\ key = deriveKeyFromAddress(toLowerCase(reader))
            /\ toLowerCase(reader) = toLowerCase(inAddress)
                  => key = deriveKeyFromAddress(inAddress)
            /\ (copy = "utils/crypto" /\ altered = "no"
                  /\ toLowerCase(reader) = toLowerCase(inAddress))
                  => <<key, slice(stored, 0, NonceLen), sliceFrom(stored, NonceLen)>>
                        \in gcmLog

\* C22 witness: a description encrypted for "0xAb" was decrypted with "0xab".
C22_Witness ==
    /\ DecryptedAsStored
    /\ copy = "utils/crypto"
    /\ inAddress = <<48, 120, 65, 98>>
    /\ reader = <<48, 120, 97, 98>>
    /\ inDescription = <<65, 65>>
    /\ result = [err |-> OK, text |-> inDescription]


(* ==================== CreateGoal: retryEncrypt ========================= *)
(* A thrown value is a record: message is the text of error.message as a   *)
(* sequence of phrases, data the text of its enumerable own properties     *)
(* (the part JSON.stringify prints: the message of an Error instance is    *)
(* not enumerable), bigint whether a property holds a BigInt.              *)

DefaultMaxRetries == 5
DefaultDelay == 2000

undefined == [kind |-> "undefined", message |-> << >>, data |-> << >>, bigint |-> FALSE]

Error(message, data, bigint) ==
    [kind |-> "Error", message |-> message, data |-> data, bigint |-> bigint]

\* JSON.stringify throws this on a BigInt
TypeError == Error(<<"Do not know how to serialize a BigInt">>, << >>, FALSE)

\* the values operation() is rejected with
Errors ==
    { Error(<<"Relayer", "is unavailable">>, << >>, FALSE),
      Error(<<"backend connection", "task has stopped">>, << >>, FALSE),
      Error(<<"Failed to check contract code">>, << >>, FALSE),
      Error(<<"Transaction rejected">>, <<"value">>, TRUE),
      Error(<<"request failed">>, <<"Relayer">>, FALSE),
      Error(<<"user denied">>, <<"code">>, FALSE) }

\* String.prototype.includes
includes(text, phrase) == \E k \in 1 .. Len(text) : text[k] = phrase

\* JSON.stringify(error, null, 2)
JSONstringify(error) ==
    IF error.bigint THEN [threw |-> TRUE, text |-> << >>]
    ELSE [threw |-> FALSE, text |-> error.data]

\* the condition of "If it's a relayer error, wait and retry"
isRelayerErrorToRetry(errorMsg, errorString) ==
    \/ includes(errorMsg, "Relayer")
    \/ includes(errorMsg, "backend connection")
    \/ includes(errorMsg, "Transaction rejected")
    \/ includes(errorMsg, "Failed to check contract code")
    \/ includes(errorString, "Relayer")
    \/ includes(errorString, "backend connection")

\* retryEncrypt(operation, maxRetries, delay) at the head of its loop
retryEncryptStart(maxRetries, delay) ==
    [pc |-> "loop", i |-> 0, maxRetries |-> maxRetries, delay |-> delay,
     lastError |-> undefined, calls |-> 0, waitTime |-> 0, thrown |-> undefined]

\* the catch block of the loop, up to its await, its throw or the loop's end
retryEncryptCatch(r, error) ==
    LET errorMsg    == error.message
        errorString == JSONstringify(error)
        r1          == [r EXCEPT !.lastError = error]
    IN  IF errorString.threw
        THEN [r1 EXCEPT !.pc = "threw", !.thrown = TypeError]
        ELSE IF isRelayerErrorToRetry(errorMsg, errorString.text)
        THEN IF r.i < r.maxRetries - 1
             THEN [r1 EXCEPT !.pc = "waiting", !.waitTime = r.delay * (r.i + 1)]
             ELSE [r1 EXCEPT !.i = r.i + 1, !.pc = "threw", !.thrown = error]
        ELSE [r1 EXCEPT !.pc = "threw", !.thrown = error]

\* the loop's test, and operation() invoked
RetryInvoke ==
    /\ retry.pc = "loop"
    /\ retry' = IF retry.i < retry.maxRetries
                THEN [retry EXCEPT !.pc = "pending", !.calls = @ + 1]
                ELSE [retry EXCEPT !.pc = "threw", !.thrown = retry.lastError]
    /\ UNCHANGED <<contractVars, cipherVars, createForm, detail>>

\* operation() is fulfilled: return await operation()
RetryResolve ==
    /\ retry.pc = "pending"
    /\ retry' = [retry EXCEPT !.pc = "returned"]
    /\ UNCHANGED <<contractVars, cipherVars, createForm, detail>>

\* operation() is rejected
RetryReject ==
    /\ retry.pc = "pending"
    /\ \E error \in Errors : retry' = retryEncryptCatch(retry, error)
    /\ UNCHANGED <<contractVars, cipherVars, createForm, detail>>

\* the timer of the wait fires: continue
RetryTimer ==
    /\ retry.pc = "waiting"
    /\ retry' = [retry EXCEPT !.pc = "loop", !.i = @ + 1]
    /\ UNCHANGED <<contractVars, cipherVars, createForm, detail>>

RetryInit ==
    /\ ContractInit
    /\ CipherOff
    /\ createForm = [pc |-> "unmounted"]
    /\ detail = [pc |-> "unmounted"]
    /\ \E maxRetries \in 1 .. DefaultMaxRetries, delay \in {DefaultDelay \div 2, DefaultDelay} :
          retry = retryEncryptStart(maxRetries, delay)

RetryNext == RetryInvoke \/ RetryResolve \/ RetryReject \/ RetryTimer

RetrySpec == RetryInit /\ [][RetryNext]_vars

\* the retryable kinds of message
messageIsRetryable(errorMsg) ==
    \/ includes(errorMsg, "Relayer")
    \/ includes(errorMsg, "backend connection")
    \/ includes(errorMsg, "Transaction rejected")
    \/ includes(errorMsg, "Failed to check contract code")

\* C25: operation is invoked at most maxRetries times; a fulfilled attempt
\* ends the run with its result; an attempt rejected with an error whose
\* message is of no retryable kind ends the run with that error; one
\* rejected with a retryable message is followed by a wait of delay * i when
\* it is attempt i and not the last, and ends the run with its error when
\* it is the last; a run that has ended makes no further attempt.
C25_RetryEncrypt ==
    [][ /\ retry'.calls <= retry'.maxRetries
        /\ retry.pc \in {"returned", "threw"} => retry' = retry
        /\ (retry.pc = "pending" /\ retry'.pc # "returned") =>
              LET error   == retry'.lastError
                  attempt == retry.i + 1
              IN  IF ~messageIsRetryable(error.message)
                  THEN retry'.pc = "threw" /\ retry'.thrown = error
                  ELSE IF attempt < retry.maxRetries
                  THEN retry'.pc = "waiting" /\ retry'.waitTime = retry.delay * attempt
                  ELSE retry'.pc = "threw" /\ retry'.thrown = error
      ]_vars

\* a run invokes operation at most maxRetries times, attempt i + 1 at most
\* once, and waits only between two attempts
RetryEncryptIsBounded ==
    /\ retry.calls <= retry.maxRetries
    /\ retry.i <= retry.maxRetries
    /\ retry.pc \in {"pending", "waiting", "returned"} => retry.calls = retry.i + 1
    /\ retry.pc = "waiting" =>
          retry.i + 1 < retry.maxRetries /\ retry.waitTime = retry.delay * (retry.i + 1)


(* ============================ GoalDetail =============================== *)
(* The component shows record goalId of the connected wallet.  Each async  *)
(* handler runs from await to await; between two awaits it is atomic.  A   *)
(* handler sees the state of the render it was created in: seen is the     *)
(* goalData of that render.  A value that may be null is << >> or <<v>>.   *)

\* useAccount().address: the connected wallet
User == "alice"

\* the goalId prop
GoalId == 0

null == << >>

\* texts typed into the progress input: "", "50", "100", "101"
ProgressTexts == {<< >>, <<53, 48>>, <<49, 48, 48>>, <<49, 48, 49>>}

\* the length of the longest prefix of decimal digits
RECURSIVE digitsPrefix(_)
digitsPrefix(text) ==
    IF text = << >> \/ Head(text) \notin 48 .. 57 THEN 0
    ELSE 1 + digitsPrefix(Tail(text))

RECURSIVE decimalValue(_)
decimalValue(digits) ==
    IF digits = << >> THEN 0
    ELSE 10 * decimalValue(SubSeq(digits, 1, Len(digits) - 1))
            + (digits[Len(digits)] - 48)

\* parseInt(text) of an unsigned text: the digits it starts with, or NaN
parseInt(text) ==
    IF digitsPrefix(text) = 0 THEN NaN
    ELSE decimalValue(SubSeq(text, 1, digitsPrefix(text)))

\* instance.userDecrypt: the cleartext behind a handle the user is granted
userDecryptAllowed(grants, user, handles) == \A h \in handles : <<h, user>> \in grants

userDecrypt(h) == h.n

Handlers == {"effect", "decrypt", "update", "complete"}

\* a handler that is not running
Idle == [pc |-> "idle", seen |-> null, n |-> 0, enc |-> null]

\* the component after its first render and its effect: useState(true) for
\* loading, and loadGoal() awaiting its reads
Mounted ==
    [pc |-> "mounted", loading |-> TRUE, decrypting |-> FALSE, goalData |-> null,
     newProgress |-> << >>, updating |-> FALSE, completing |-> FALSE,
     ended |-> "no",
     run |-> [h \in Handlers |->
                IF h = "effect" THEN [Idle EXCEPT !.pc = "loadGoal"] ELSE Idle]]

\* what the render shows
rendered(d) == ~d.loading /\ d.goalData # null

decryptShown(d) == rendered(d) /\ d.goalData[1].deadline = 0 /\ ~d.decrypting

progressShown(d) == rendered(d) /\ ~d.goalData[1].isCompleted

updateEnabled(d) == progressShown(d) /\ ~(d.updating \/ d.newProgress = << >>)

completeEnabled(d) ==
    /\ progressShown(d)
    /\ ~(d.completing \/ d.newProgress = << >> \/ parseInt(d.newProgress) # 100)

\* loadGoal up to its first await
loadGoalEntry(d) == [d EXCEPT !.loading = TRUE]

\* loadGoal after its awaits: the try block's setGoalData, or the catch
\* block, and the finally block; the description, which no handler reads
\* and every spread carries along, is left out of goalData
loadGoalSettled(d, readsOk) ==
    LET meta == getGoalMeta(GoalId)
    IN  IF readsOk /\ meta.err = OK
        THEN [d EXCEPT !.goalData = << [title       |-> meta.title,
                                        deadline    |-> 0,
                                        priority    |-> 0,
                                        progress    |-> 0,
                                        completedAt |-> null,
                                        isCompleted |-> meta.isCompleted,
                                        createdAt   |-> meta.createdAt] >>,
                       !.loading = FALSE]
        ELSE [d EXCEPT !.loading = FALSE]

\* the end of handler h: the finally block of updateProgress / completeGoal;
\* ended tells whether the handler that ended latest returned or threw
handlerEnds(d, h, how) ==
    LET d1 == [d EXCEPT !.run[h] = Idle, !.ended = how]
    IN  IF h = "update" THEN [d1 EXCEPT !.updating = FALSE]
        ELSE IF h = "complete" THEN [d1 EXCEPT !.completing = FALSE]
        ELSE d1

\* decryptEncryptedFields() called in handler h, up to its first await
decryptEncryptedFieldsEntry(d, h) ==
    IF d.run[h].seen = null THEN handlerEnds(d, h, "returned")
    ELSE [d EXCEPT !.decrypting = TRUE, !.run[h].pc = "reads"]

\* setGoalData({...goalData, deadline, priority, progress, completedAt})
decryptedOverAsSeen(g, enc, encCompletedAt) ==
    [g EXCEPT !.deadline = userDecrypt(enc[1].deadline),
              !.priority = userDecrypt(enc[1].priority),
              !.progress = userDecrypt(enc[1].progress),
              !.completedAt = IF encCompletedAt # null /\ userDecrypt(encCompletedAt[1]) # 0
                              THEN <<userDecrypt(encCompletedAt[1])>>
                              ELSE null]

\* the user types into the progress input
TypeProgress ==
    /\ progressShown(detail)
    /\ \E text \in ProgressTexts \ {detail.newProgress} :
          detail' = [detail EXCEPT !.newProgress = text]
    /\ UNCHANGED <<contractVars, cipherVars, retry, createForm>>

\* the user clicks "Decrypt Details"
ClickDecrypt ==
    /\ decryptShown(detail)
    /\ detail.run["decrypt"].pc = "idle"
    /\ detail' = decryptEncryptedFieldsEntry(
                    [detail EXCEPT !.run["decrypt"].seen = detail.goalData], "decrypt")
    /\ UNCHANGED <<contractVars, cipherVars, retry, createForm>>

\* the user clicks "Update": updateProgress up to its first await
ClickUpdate ==
    /\ updateEnabled(detail)
    /\ detail.run["update"].pc = "idle"
    /\ LET progressNum == parseInt(detail.newProgress)
       IN  detail' =
             IF progressNum # NaN /\ (progressNum < 0 \/ progressNum > 100)
             THEN detail
             ELSE [detail EXCEPT !.updating = TRUE,
                                 !.run["update"] = [Idle EXCEPT !.pc = "tx",
                                                                !.seen = detail.goalData,
                                                                !.n = progressNum]]
    /\ UNCHANGED <<contractVars, cipherVars, retry, createForm>>

\* the user clicks "Mark as Completed": completeGoal up to its first await
ClickComplete ==
    /\ completeEnabled(detail)
    /\ detail.run["complete"].pc = "idle"
    /\ detail' = [detail EXCEPT !.completing = TRUE,
                                !.run["complete"] = [Idle EXCEPT !.pc = "tx",
                                                                 !.seen = detail.goalData]]
    /\ UNCHANGED <<contractVars, cipherVars, retry, createForm>>

\* updateProgress: the input is encrypted, the transaction sent and mined;
\* then the optimistic setGoalData and loadGoal() up to its first await
UpdateTx ==
    /\ detail.run["update"].pc = "tx"
    /\ \/ /\ detail' = handlerEnds(detail, "update", "threw")
          /\ UNCHANGED contractVars
       \/ \E ts \in Later :
            /\ updateProgress(User, GoalId,
                              ExternalHandle(8, User, detail.run["update"].n), TRUE, ts)
            /\ detail' =
                 IF last'.err # OK THEN handlerEnds(detail, "update", "threw")
                 ELSE LET seen == detail.run["update"].seen
                          d1 == [detail EXCEPT !.newProgress = << >>]
                          d2 == IF seen = null THEN d1
                                ELSE [d1 EXCEPT !.goalData =
                                        << [seen[1] EXCEPT
                                              !.progress = detail.run["update"].n] >>]
                      IN  [loadGoalEntry(d2) EXCEPT !.run["update"].pc = "loadGoal"]
    /\ UNCHANGED <<cipherVars, retry, createForm>>

\* completeGoal: the time of the client's clock is encrypted, the
\* transaction sent and mined; then loadGoal() up to its first await
CompleteTx ==
    /\ detail.run["complete"].pc = "tx"
    /\ \/ /\ detail' = handlerEnds(detail, "complete", "threw")
          /\ UNCHANGED contractVars
       \/ \E ts \in Later :
            /\ completeGoal(User, GoalId, ExternalHandle(64, User, now), TRUE, ts)
            /\ detail' =
                 IF last'.err # OK THEN handlerEnds(detail, "complete", "threw")
                 ELSE [loadGoalEntry(detail) EXCEPT !.run["complete"].pc = "loadGoal"]
    /\ UNCHANGED <<cipherVars, retry, createForm>>

\* the reads of loadGoal() settle; in updateProgress and completeGoal
\* decryptEncryptedFields() follows, up to its first await
LoadSettles(h) ==
    /\ detail.run[h].pc = "loadGoal"
    /\ \E readsOk \in BOOLEAN :
          LET d1 == loadGoalSettled(detail, readsOk)
          IN  detail' = IF h = "effect" THEN handlerEnds(d1, h, "returned")
                        ELSE decryptEncryptedFieldsEntry(d1, h)
    /\ UNCHANGED <<contractVars, cipherVars, retry, createForm>>

\* decryptEncryptedFields: the three handles are read, or a read fails
ReadHandles(h) ==
    /\ detail.run[h].pc = "reads"
    /\ \/ detail' = [detail EXCEPT
                        !.run[h].pc = "sign",
                        !.run[h].enc = << [deadline |-> getEncryptedDeadline(GoalId).val,
                                           priority |-> getEncryptedPriority(GoalId).val,
                                           progress |-> getEncryptedProgress(GoalId).val] >>]
       \/ detail' = handlerEnds(detail, h, "threw")
    /\ UNCHANGED <<contractVars, cipherVars, retry, createForm>>

\* decryptEncryptedFields: the wallet signs the request, or the user rejects
Sign(h) ==
    /\ detail.run[h].pc = "sign"
    /\ \/ detail' = [detail EXCEPT !.run[h].pc = "userDecrypt"]
       \/ detail' = handlerEnds(detail, h, "threw")
    /\ UNCHANGED <<contractVars, cipherVars, retry, createForm>>

\* decryptEncryptedFields: the completion handle is read if the snapshot is
\* completed, instance.userDecrypt answers and the result is spread over the
\* snapshot; or one of the two fails
UserDecrypt(h) ==
    /\ detail.run[h].pc = "userDecrypt"
    /\ LET seen == detail.run[h].seen
           enc  == detail.run[h].enc
           encCompletedAt == IF seen[1].isCompleted
                             THEN <<getEncryptedCompletedAt(GoalId).val>>
                             ELSE null
           handles == {enc[1].deadline, enc[1].priority, enc[1].progress}
                         \cup {encCompletedAt[k] : k \in 1 .. Len(encCompletedAt)}
       IN  \/ /\ userDecryptAllowed(acl, User, handles)
              /\ detail' = handlerEnds(
                    [detail EXCEPT !.goalData = <<decryptedOverAsSeen(seen[1], enc,
                                                                      encCompletedAt)>>,
                                   !.decrypting = FALSE], h, "returned")
           \/ detail' = handlerEnds(detail, h, "threw")
    /\ UNCHANGED <<contractVars, cipherVars, retry, createForm>>

\* the store holds record GoalId of the user
DetailInit ==
    /\ LET g == newGoal(User, "Learn X", "0xd1", ExternalHandle(64, User, 1),
                        ExternalHandle(8, User, 1), 1)
       IN  /\ goals = <<g>>
           /\ goalsOf = pushGoalId([p \in Principals |-> << >>], User, GoalId)
           /\ acl = createGoalGrants({}, g, User)
           /\ events = <<GoalCreated(GoalId, User, g.title, g.createdAt)>>
    /\ now = 1
    /\ last = NoCall
    /\ CipherOff
    /\ retry = [pc |-> "idle"]
    /\ createForm = [pc |-> "unmounted"]
    /\ detail = Mounted

DetailNext ==
    \/ TypeProgress
    \/ ClickDecrypt
    \/ ClickUpdate
    \/ ClickComplete
    \/ UpdateTx
    \/ CompleteTx
    \/ \E h \in Handlers : LoadSettles(h)
    \/ \E h \in Handlers : ReadHandles(h)
    \/ \E h \in Handlers : Sign(h)
    \/ \E h \in Handlers : UserDecrypt(h)

DetailSpec == DetailInit /\ [][DetailNext]_vars

\* every awaited promise is settled in the end; the user need not act
DetailFairness ==
    /\ WF_vars(UpdateTx)
    /\ WF_vars(CompleteTx)
    /\ \A h \in Handlers :
          /\ WF_vars(LoadSettles(h))
          /\ WF_vars(ReadHandles(h))
          /\ WF_vars(Sign(h))
          /\ WF_vars(UserDecrypt(h))

DetailFairSpec == DetailSpec /\ DetailFairness

ProgressFreshAfterUpdate ==
    [][ (detail.run["update"].pc = "userDecrypt"
            /\ detail'.run["update"].pc = "idle"
              /\ detail'.ended = "returned")
            => (/\ detail'.goalData # null
                /\ detail'.goalData[1].progress = detail.run["update"].n
                /\ detail'.goalData[1].progress
                      = userDecrypt(getEncryptedProgress(GoalId).val))
      ]_vars

\* C29: each busy flag that is true is false again later.
C29_BusyFlagsReturn ==
    /\ (detail.decrypting = TRUE) ~> (detail.decrypting = FALSE)
    /\ (detail.loading = TRUE) ~> (detail.loading = FALSE)
    /\ (detail.updating = TRUE) ~> (detail.updating = FALSE)
    /\ (detail.completing = TRUE) ~> (detail.completing = FALSE)

\* the flags that are reset in a finally block
FlagsResetInFinally ==
    /\ (detail.loading = TRUE) ~> (detail.loading = FALSE)
    /\ (detail.updating = TRUE) ~> (detail.updating = FALSE)
    /\ (detail.completing = TRUE) ~> (detail.completing = FALSE)


(* ====================== CreateGoal: handleSubmit ======================= *)
(* The handler runs from await to await.  The form's texts are sequences   *)
(* of code units; the deadline is null or the time its text stands for.    *)

MaxTitleLength == 100
MaxDescriptionLength == 1000
MinPriority == 1
MaxPriority == 5

\* the connected wallet's address as a string: "0xAb"
UserAddress == <<48, 120, 65, 98>>

\* a text of n letters
lettersOf(n) == [k \in 1 .. n |-> 97]

\* the code units String.prototype.trim removes, of those below 128
WhiteSpace == {9, 10, 11, 12, 13, 32}

RECURSIVE trimStart(_)
trimStart(text) ==
    IF text # << >> /\ Head(text) \in WhiteSpace THEN trimStart(Tail(text)) ELSE text

RECURSIVE trimEnd(_)
trimEnd(text) ==
    IF text # << >> /\ text[Len(text)] \in WhiteSpace
    THEN trimEnd(SubSeq(text, 1, Len(text) - 1))
    ELSE text

\* String.prototype.trim
trim(text) == trimEnd(trimStart(text))

\* what the hooks and the network give the component
GoodEnv ==
    [instance |-> TRUE, address |-> TRUE, signerPromise |-> TRUE,
     contractAddress |-> "deployed", createEncryptedInput |-> TRUE,
     provider |-> TRUE, code |-> "0x60"]

Envs ==
    { GoodEnv,
      [GoodEnv EXCEPT !.instance = FALSE],
      [GoodEnv EXCEPT !.address = FALSE],
      [GoodEnv EXCEPT !.signerPromise = FALSE],
      [GoodEnv EXCEPT !.contractAddress = "undefined"],
      [GoodEnv EXCEPT !.contractAddress = "0x0000000000000000000000000000000000000000"],
      [GoodEnv EXCEPT !.createEncryptedInput = FALSE],
      [GoodEnv EXCEPT !.provider = FALSE],
      [GoodEnv EXCEPT !.code = "0x"] }

\* the form as the user filled it in: titles "Learn X", "  ", 100 and 101
\* letters; descriptions "d", " ", 1001 letters; deadlines before and after
\* the clock, and none; priorities "3", "6", ""
FormTitles ==
    {<<76, 101, 97, 114, 110, 32, 88>>, <<32, 32>>,
     lettersOf(MaxTitleLength), lettersOf(MaxTitleLength + 1)}

FormDescriptions == {<<100>>, <<32>>, lettersOf(MaxDescriptionLength + 1)}

FormDeadlines == {null, <<0>>, <<2>>}

FormPriorities == {<<51>>, <<54>>, << >>}

\* the constraints the browser checks before it fires the submit event:
\* required on the four inputs, min and max on the number input
formIsValid(f) ==
    /\ f.title # << >>
    /\ f.description # << >>
    /\ f.deadline # null
    /\ f.priority # << >>
    /\ digitsPrefix(f.priority) = Len(f.priority)
    /\ parseInt(f.priority) >= MinPriority
    /\ parseInt(f.priority) <= MaxPriority

isRelayerError(errorMessage, errorString) ==
    \/ includes(errorMessage, "Relayer")
    \/ includes(errorMessage, "backend connection")
    \/ includes(errorString, "Relayer")
    \/ includes(errorString, "backend connection")

\* the message handleSubmit's catch block shows
userFriendlyMessage(errorMessage, errorString) ==
    IF \/ isRelayerError(errorMessage, errorString)
       \/ includes(errorMessage, "Failed to check contract code")
       \/ includes(errorMessage, "backend connection task has stopped")
    THEN <<"Sepolia Relayer Service Issue">>
    ELSE IF includes(errorMessage, "Transaction rejected")
    THEN <<"Transaction rejected by Relayer: ">> \o errorMessage
    ELSE IF includes(errorMessage, "timeout") \/ includes(errorMessage, "time out")
    THEN <<"Operation timed out. The Relayer service may be overloaded.">>
    ELSE errorMessage

\* variant: the catch block without the finally block
handleSubmitCatchOnly(f, err) ==
    LET errorMessage == IF err.message = << >> THEN <<"Failed to create goal">>
                        ELSE err.message
        errorString  == JSONstringify(err)
    IN  IF errorString.threw
        THEN [f EXCEPT !.pc = "idle"]
        ELSE [f EXCEPT !.error = <<userFriendlyMessage(errorMessage, errorString.text)>>,
                       !.pc = "idle"]

\* the catch block and the finally block; when JSON.stringify throws in the
\* catch block, setError is not reached and the finally block still runs
handleSubmitCatch(f, err) ==
    LET errorMessage == IF err.message = << >> THEN <<"Failed to create goal">>
                        ELSE err.message
        errorString  == JSONstringify(err)
    IN  IF errorString.threw
        THEN [f EXCEPT !.isSubmitting = FALSE, !.pc = "idle"]
        ELSE [f EXCEPT !.error = <<userFriendlyMessage(errorMessage, errorString.text)>>,
                       !.isSubmitting = FALSE, !.pc = "idle"]

\* validateInputs(): the error it throws, or null
validateInputs(f) ==
    IF Len(f.title) > MaxTitleLength
    THEN <<Error(<<"Title must be less than 100 characters">>, << >>, FALSE)>>
    ELSE IF Len(f.description) > MaxDescriptionLength
    THEN <<Error(<<"Description must be less than 1000 characters">>, << >>, FALSE)>>
    ELSE null

\* handleSubmit up to its first await
handleSubmitEntry(f) ==
    IF ~f.env.instance \/ ~f.env.address \/ ~f.env.signerPromise
    THEN [f EXCEPT !.error = <<<<"Missing wallet or encryption instance">>>>]
    ELSE IF trim(f.title) = << >> \/ trim(f.description) = << >> \/ f.deadline = null
    THEN [f EXCEPT !.error = <<<<"Please fill in all fields">>>>]
    ELSE LET f1 == [f EXCEPT !.isSubmitting = TRUE, !.error = null,
                             !.encryptedDescriptionBytes = null,
                             !.encryptedDeadline = null, !.encryptedPriority = null]
         IN  IF validateInputs(f) # null THEN handleSubmitCatch(f1, validateInputs(f)[1])
             ELSE IF f.env.contractAddress # "deployed"
             THEN handleSubmitCatch(f1,
                     Error(<<"Contract", "not deployed", "on network">>, << >>, FALSE))
             ELSE IF ~f.env.createEncryptedInput
             THEN handleSubmitCatch(f1,
                     Error(<<"FHEVM instance is not properly initialized">>, << >>, FALSE))
             ELSE [f1 EXCEPT !.pc = "verify"]

\* the error the inner catch block throws for verifyError
verificationFailed(verifyError) ==
    Error(<<"Contract verification failed: ">> \o verifyError.message, << >>, FALSE)

\* the checks between encryptDescription and the first retryEncrypt: the
\* error thrown, or null
deadlineAndPriorityError(f, currentTimestamp) ==
    LET priorityNum == parseInt(f.priority)
    IN  IF f.deadline[1] < currentTimestamp
        THEN <<Error(<<"Deadline must be in the future">>, << >>, FALSE)>>
        ELSE IF priorityNum # NaN /\ (priorityNum < MinPriority \/ priorityNum > MaxPriority)
        THEN <<Error(<<"Priority must be between 1 and 5">>, << >>, FALSE)>>
        ELSE null

\* the user submits the form
Submit ==
    /\ createForm.pc = "idle"
    /\ ~createForm.isSubmitting
    /\ formIsValid(createForm)
    /\ createForm' = handleSubmitEntry(createForm)
    /\ UNCHANGED <<contractVars, cipherVars, retry, detail>>

\* the contract's code is looked up: await signerPromise, provider.getCode
VerifyCode ==
    /\ createForm.pc = "verify"
    /\ \/ \E verifyError \in Errors :
            createForm' = handleSubmitCatch(createForm, verificationFailed(verifyError))
       \/ createForm' =
            IF createForm.env.provider /\ createForm.env.code = "0x"
            THEN handleSubmitCatch(createForm,
                    verificationFailed(Error(<<"Contract", "does not exist", "at address">>,
                                             << >>, FALSE)))
            ELSE [createForm EXCEPT !.pc = "encryptDescription"]
    /\ UNCHANGED <<contractVars, cipherVars, retry, detail>>

\* await encryptDescription(description, address); the deadline and the
\* priority are checked; retryEncrypt is called for the deadline
EncryptDescription ==
    /\ createForm.pc = "encryptDescription"
    /\ \/ /\ \E err \in Errors : createForm' = handleSubmitCatch(createForm, err)
          /\ UNCHANGED retry
       \/ \E nonce \in Nonces :
            LET encryptedDescription ==
                    encryptDescription(createForm.description, UserAddress, nonce)
                f1 == [createForm EXCEPT !.encryptedDescriptionBytes =
                                            <<hexToBytes(encryptedDescription)>>]
                thrown == deadlineAndPriorityError(createForm, now)
            IN  IF thrown # null
                THEN /\ createForm' = handleSubmitCatch(f1, thrown[1])
                     /\ UNCHANGED retry
                ELSE /\ createForm' = [f1 EXCEPT !.pc = "encryptDeadline"]
                     /\ retry' = retryEncryptStart(DefaultMaxRetries, DefaultDelay)
    /\ UNCHANGED <<contractVars, cipherVars, detail>>

\* retryEncrypt for the deadline has ended; on its result retryEncrypt is
\* called for the priority
DeadlineEncrypted ==
    /\ createForm.pc = "encryptDeadline"
    /\ \/ /\ retry.pc = "returned"
          /\ createForm' = [createForm EXCEPT
                               !.encryptedDeadline =
                                   <<ExternalHandle(64, User, createForm.deadline[1])>>,
                               !.pc = "encryptPriority"]
          /\ retry' = retryEncryptStart(DefaultMaxRetries, DefaultDelay)
       \/ /\ retry.pc = "threw"
          /\ createForm' = handleSubmitCatch(createForm, retry.thrown)
          /\ retry' = [pc |-> "idle"]
    /\ UNCHANGED <<contractVars, cipherVars, detail>>

\* retryEncrypt for the priority has ended
PriorityEncrypted ==
    /\ createForm.pc = "encryptPriority"
    /\ \/ /\ retry.pc = "returned"
          /\ createForm' = [createForm EXCEPT
                               !.encryptedPriority =
                                   <<ExternalHandle(8, User, parseInt(createForm.priority))>>,
                               !.pc = "tx"]
       \/ /\ retry.pc = "threw"
          /\ createForm' = handleSubmitCatch(createForm, retry.thrown)
    /\ retry' = [pc |-> "idle"]
    /\ UNCHANGED <<contractVars, cipherVars, detail>>

\* the form after "Reset form" and onSuccess(): the parent leaves the tab
resetAndSucceeded(f) ==
    [f EXCEPT !.title = << >>, !.description = << >>, !.deadline = null,
              !.priority = <<51>>, !.onSuccess = @ + 1, !.isSubmitting = FALSE,
              !.pc = "submitted"]

\* contract.createGoal(...) is sent and tx.wait() settles; a signer without
\* a provider cannot send
SubmitTx ==
    /\ createForm.pc = "tx"
    /\ \/ /\ \E err \in Errors : createForm' = handleSubmitCatch(createForm, err)
          /\ UNCHANGED contractVars
       \/ /\ createForm.env.provider
          /\ \E ts \in Later :
                createGoal(User, createForm.title, createForm.encryptedDescriptionBytes[1],
                           createForm.encryptedDeadline[1], TRUE,
                           createForm.encryptedPriority[1], TRUE, ts)
          /\ createForm' =
                IF last'.err = OK THEN resetAndSucceeded(createForm)
                ELSE handleSubmitCatch(createForm, Error(<<last'.err>>, << >>, FALSE))
    /\ UNCHANGED <<cipherVars, retry, detail>>

SubmitInit ==
    /\ ContractInit
    /\ CipherOff
    /\ retry = [pc |-> "idle"]
    /\ detail = [pc |-> "unmounted"]
    /\ \E env \in Envs, t \in FormTitles, d \in FormDescriptions,
          dl \in FormDeadlines, p \in FormPriorities :
          createForm = [pc |-> "idle", env |-> env, title |-> t, description |-> d,
                        deadline |-> dl, priority |-> p, isSubmitting |-> FALSE,
                        error |-> null, encryptedDescriptionBytes |-> null,
                        encryptedDeadline |-> null, encryptedPriority |-> null,
                        onSuccess |-> 0]

SubmitNext ==
    \/ Submit
    \/ VerifyCode
    \/ EncryptDescription
    \/ DeadlineEncrypted
    \/ PriorityEncrypted
    \/ SubmitTx
    \/ RetryInvoke
    \/ RetryResolve
    \/ RetryReject
    \/ RetryTimer

SubmitSpec == SubmitInit /\ [][SubmitNext]_vars

\* every awaited promise is settled and every timer fires in the end; the
\* user need not submit
SubmitFairness ==
    /\ WF_vars(VerifyCode)
    /\ WF_vars(EncryptDescription)
    /\ WF_vars(DeadlineEncrypted)
    /\ WF_vars(PriorityEncrypted)
    /\ WF_vars(SubmitTx)
    /\ WF_vars(RetryInvoke)
    /\ WF_vars(RetryResolve \/ RetryReject)
    /\ WF_vars(RetryTimer)

SubmitFairSpec == SubmitSpec /\ SubmitFairness

\* the checks of handleSubmit, on the form and the time of the clock
checksPassed(f, currentTimestamp) ==
    /\ f.env.instance /\ f.env.address /\ f.env.signerPromise
    /\ trim(f.title) # << >> /\ trim(f.description) # << >> /\ f.deadline # null
    /\ Len(f.title) <= MaxTitleLength
    /\ Len(f.description) <= MaxDescriptionLength
    /\ f.env.code # "0x"
    /\ f.deadline[1] >= currentTimestamp
    /\ parseInt(f.priority) \in MinPriority .. MaxPriority

====
